---- MODULE Spec2Model ----
(***************************************************************************)
(* Model of the kanban backend's GraphQL mutations                         *)
(* (src/backend/apps/kanban/schema/mutations.py) over the Django models    *)
(* Task, Checklist and ChecklistItem (src/backend/apps/kanban/models.py).  *)
(*                                                                         *)
(* The database is three tables, each a function from primary key to row.  *)
(* Every mutation is one action that performs the whole handler.           *)
(* One call of a run is put under observation: `last` records that call    *)
(* (its arguments and its returned payload) and `pre` holds the tables as  *)
(* they were when it started.  A run ends with the observed call, so the   *)
(* observed call is any call from any state a sequence of calls reaches.   *)
(***************************************************************************)
EXTENDS Integers, Sequences, FiniteSets, TLC

VARIABLES tasks, checklists, items, nextTaskId, nextChecklistId, nextItemId,
          pre, last, txn

vars == <<tasks, checklists, items, nextTaskId, nextChecklistId, nextItemId,
          pre, last, txn>>

(***************************************************************************)
(* Bounds of the exploration.                                              *)
(***************************************************************************)
\* Number of checklist items ever created (primary keys 1..MaxItems).
MaxItems == 3
\* Longest item_ids list passed to ReorderChecklistItems.
MaxLen == 3
\* Largest position stored on a checklist item.
MaxPos == 2
\* Number of tasks and of items ever created when every mutation is exercised.
MaxAll == 2
\* Number of items of the checklist whose progress is read.
MaxTotal == 50
\* Number of checklists ever created (primary keys 1..MaxChecklists).
MaxChecklists == 2
\* Number of tasks ever created (primary keys 1..MaxTasks).
MaxTasks == 3
\* Largest order stored on a task.
MaxOrder == 2
\* Number of times one task row is saved after it was created.
MaxSaves == 2

(***************************************************************************)
(* Python values.                                                          *)
(***************************************************************************)
\* Optional values: None is the empty tuple, a present value x is <<x>>.
None == <<>>
Some(x) == <<x>>
Opt(S) == {None} \cup {Some(x) : x \in S}

\* Python's `x or d` on an optional integer: None and 0 are both falsy.
PyOr(x, d) == IF x = None \/ x = Some(0) THEN d ELSE x[1]

\* str(n) of a primary key, and int(token) as Django's IntegerField parses a
\* GraphQL ID string: leading zeros are accepted and dropped.
Digits == <<"0", "1", "2", "3", "4", "5", "6", "7", "8", "9">>
Str(n) == Digits[n + 1]
IdValue(tok) == CHOOSE n \in 0..9 : tok = Str(n) \/ tok = "0" \o Str(n)

\* Maximum of a non-empty set of integers.
SetMax(S) == CHOOSE m \in S : \A x \in S : x <= m

\* SQL Max aggregate: NULL (None) over no rows.
AggregateMax(S) == IF S = {} THEN None ELSE Some(SetMax(S))

(***************************************************************************)
(* Tables.                                                                 *)
(***************************************************************************)
Statuses == {"TODO", "DOING", "WAITING", "DONE"}
Priorities == {"P1", "P2", "P3", "P4"}

\* Task.updated_at (auto_now, apps/core/models.py): every save of a row stores
\* the time of the save, which is later than the time the row held.  A time
\* is kept as the number of saves of the row since it was created.
AutoNow(updated_at) == updated_at + 1

\* ChecklistItem rows of one checklist (checklist.items / filter(checklist=)).
ItemsOf(db, g) == {i \in DOMAIN db : db[i].checklist = g}

\* A queryset ordered by position, as a list of primary keys. Rows with equal
\* position come in primary-key order (the index order of the store).
RECURSIVE OrderByPosition(_, _)
OrderByPosition(db, ids) ==
  IF ids = {} THEN <<>>
  ELSE LET first == CHOOSE i \in ids :
                      \A j \in ids : \/ db[i].position < db[j].position
                                     \/ /\ db[i].position = db[j].position
                                        /\ i <= j
       IN <<first>> \o OrderByPosition(db, ids \ {first})


(***************************************************************************)
(* Text.  A string is a tuple of characters.                               *)
(***************************************************************************)
\* The characters str.isspace() holds for, as far as a string can carry
\* them: space, tab, line feed, form feed, carriage return, and, written as
\* the characters themselves, vertical tab (0x0b), the separators 0x1c, 0x1d,
\* 0x1e, 0x1f, next line (0x85), no-break space (0xa0) and ogham space mark
\* (0x1680).  str.strip() also removes 0x2000 to 0x200a, 0x2028, 0x2029,
\* 0x202f, 0x205f and 0x3000, which no string of this module can hold.
Whitespace == {" ", "\t", "\n", "\f", "\r",
               "", "", "", "", "",
               "", " ", " "}

\* str.strip(): drop leading and trailing whitespace.
RECURSIVE LStrip(_)
LStrip(s) == IF s # <<>> /\ Head(s) \in Whitespace THEN LStrip(Tail(s)) ELSE s
RECURSIVE RStrip(_)
RStrip(s) ==
  IF s # <<>> /\ s[Len(s)] \in Whitespace THEN RStrip(SubSeq(s, 1, Len(s) - 1)) ELSE s
Strip(s) == RStrip(LStrip(s))

(***************************************************************************)
(* AddChecklistItem.mutate                                                 *)
(***************************************************************************)
\* Checklist.objects.get(pk=checklist_id) finds a row.
ChecklistExistsAlways(cls, tok) == TRUE
ChecklistExists(cls, tok) == IdValue(tok) \in DOMAIN cls

\* The position stored on a new item: the explicit one, or the one computed
\* from the maximum position of the checklist's items.
AutoPosition(db, g) ==
  LET max_position == AggregateMax({db[i].position : i \in ItemsOf(db, g)})
  IN PyOr(max_position, -1) + 1

NewItemPositionAvoidsTaken(db, g, position) ==
  IF position = None \/ \E i \in ItemsOf(db, g) : db[i].position = position[1]
  THEN AutoPosition(db, g)
  ELSE position[1]
NewItemPosition(db, g, position) ==
  IF position = None THEN AutoPosition(db, g) ELSE position[1]

\* What the call returns and stores: outcome "ok" with the new row, or
\* "rejected" with the errors list.
AddChecklistItemMutate(db, cls, id, checklist_id, text, position) ==
  IF ~ChecklistExists(cls, checklist_id)
  THEN [outcome |-> "rejected", db |-> db, item |-> None,
        errors |-> <<"Checklist " \o checklist_id \o " not found">>]
  ELSE IF text = <<>> \/ Strip(text) = <<>>
  THEN [outcome |-> "rejected", db |-> db, item |-> None,
        errors |-> <<"Item text cannot be empty">>]
  ELSE LET g == IdValue(checklist_id)
           row == [checklist |-> g, text |-> Strip(text),
                   position |-> NewItemPosition(db, g, position),
                   completed |-> FALSE]
       IN [outcome |-> "ok", item |-> Some(id), errors |-> <<>>,
           db |-> [i \in DOMAIN db \cup {id} |-> IF i = id THEN row ELSE db[i]]]

Tables == [tasks |-> tasks, checklists |-> checklists, items |-> items]

\* The call being made is recorded as `call` when it is the observed one.
Observe(obs, call) ==
  /\ last' = IF obs THEN call ELSE last
  /\ pre' = IF obs THEN Tables ELSE pre

AddChecklistItem(checklist_id, text, position, obs) ==
  LET r == AddChecklistItemMutate(items, checklists, nextItemId,
                                  checklist_id, text, position)
  IN /\ nextItemId <= MaxItems
     /\ r.outcome = "ok" => r.db[nextItemId].position <= MaxPos
     /\ items' = r.db
     /\ nextItemId' = IF r.outcome = "ok" THEN nextItemId + 1 ELSE nextItemId
     /\ Observe(obs, [op |-> "AddChecklistItem", checklist_id |-> checklist_id,
                       text |-> text, position |-> position,
                       outcome |-> r.outcome, item |-> r.item,
                       errors |-> r.errors])
     /\ UNCHANGED <<tasks, checklists, nextTaskId, nextChecklistId, txn>>

(***************************************************************************)
(* DeleteChecklistItem.mutate                                              *)
(***************************************************************************)
DeleteChecklistItemRenumbers(db, item_id) ==
  IF IdValue(item_id) \notin DOMAIN db
  THEN [outcome |-> "rejected", db |-> db, success |-> FALSE, deleted_id |-> None,
        errors |-> <<"Item " \o item_id \o " not found">>]
  ELSE LET gone == db[IdValue(item_id)]
       IN [outcome |-> "ok", success |-> TRUE, deleted_id |-> Some(item_id),
           errors |-> <<>>,
           db |-> [i \in DOMAIN db \ {IdValue(item_id)} |->
                     IF db[i].checklist = gone.checklist
                        /\ db[i].position > gone.position
                     THEN [db[i] EXCEPT !.position = @ - 1]
                     ELSE db[i]]]
DeleteChecklistItemMutate(db, item_id) ==
  IF IdValue(item_id) \notin DOMAIN db
  THEN [outcome |-> "rejected", db |-> db, success |-> FALSE, deleted_id |-> None,
        errors |-> <<"Item " \o item_id \o " not found">>]
  ELSE [outcome |-> "ok", success |-> TRUE, deleted_id |-> Some(item_id),
        errors |-> <<>>,
        db |-> [i \in DOMAIN db \ {IdValue(item_id)} |-> db[i]]]

DeleteChecklistItem(item_id, obs) ==
  LET r == DeleteChecklistItemMutate(items, item_id)
  IN /\ items' = r.db
     /\ Observe(obs, [op |-> "DeleteChecklistItem", item_id |-> item_id,
                       outcome |-> r.outcome, success |-> r.success,
                       deleted_id |-> r.deleted_id, errors |-> r.errors])
     /\ UNCHANGED <<tasks, checklists, nextTaskId, nextChecklistId, nextItemId, txn>>


(***************************************************************************)
(* ToggleChecklistItem.mutate and UpdateChecklistItem.mutate               *)
(***************************************************************************)
\* item.save(update_fields=[...]) writes the named columns of the one row.
ToggleChecklistItemMovesDone(db, item_id) ==
  IF IdValue(item_id) \notin DOMAIN db
  THEN [outcome |-> "rejected", db |-> db, item |-> None,
        errors |-> <<"Item " \o item_id \o " not found">>]
  ELSE LET i == IdValue(item_id)
       IN [outcome |-> "ok", item |-> Some(i), errors |-> <<>>,
           db |-> [db EXCEPT ![i].completed = ~db[i].completed,
                             ![i].position =
                                SetMax({db[j].position :
                                          j \in ItemsOf(db, db[i].checklist)}) + 1]]
ToggleChecklistItemMutate(db, item_id) ==
  IF IdValue(item_id) \notin DOMAIN db
  THEN [outcome |-> "rejected", db |-> db, item |-> None,
        errors |-> <<"Item " \o item_id \o " not found">>]
  ELSE LET i == IdValue(item_id)
       IN [outcome |-> "ok", item |-> Some(i), errors |-> <<>>,
           db |-> [db EXCEPT ![i].completed = ~db[i].completed]]

ToggleChecklistItem(item_id, obs) ==
  LET r == ToggleChecklistItemMutate(items, item_id)
  IN /\ items' = r.db
     /\ Observe(obs, [op |-> "ToggleChecklistItem", item_id |-> item_id,
                      outcome |-> r.outcome, item |-> r.item,
                      errors |-> r.errors])
     /\ UNCHANGED <<tasks, checklists, nextTaskId, nextChecklistId, nextItemId, txn>>

UpdateChecklistItemMutate(db, item_id, text, completed) ==
  IF IdValue(item_id) \notin DOMAIN db
  THEN [outcome |-> "rejected", db |-> db, item |-> None,
        errors |-> <<"Item " \o item_id \o " not found">>]
  ELSE LET i == IdValue(item_id)
           row == [db[i] EXCEPT
                     !.text = IF text # None THEN Strip(text[1]) ELSE @,
                     !.completed = IF completed # None THEN completed[1] ELSE @]
       IN [outcome |-> "ok", item |-> Some(i), errors |-> <<>>,
           db |-> [db EXCEPT ![i] = row]]

UpdateChecklistItem(item_id, text, completed, obs) ==
  LET r == UpdateChecklistItemMutate(items, item_id, text, completed)
  IN /\ items' = r.db
     /\ Observe(obs, [op |-> "UpdateChecklistItem", item_id |-> item_id,
                      text |-> text, completed |-> completed,
                      outcome |-> r.outcome, item |-> r.item,
                      errors |-> r.errors])
     /\ UNCHANGED <<tasks, checklists, nextTaskId, nextChecklistId, nextItemId, txn>>

(***************************************************************************)
(* CreateChecklist.mutate and DeleteChecklist.mutate                       *)
(***************************************************************************)
CreateChecklist(task_id, title, obs) ==
  LET found == IdValue(task_id) \in DOMAIN tasks
      row == [task |-> IdValue(task_id), title |-> title]
  IN /\ nextChecklistId <= MaxChecklists
     /\ checklists' =
          IF found
          THEN [c \in DOMAIN checklists \cup {nextChecklistId} |->
                  IF c = nextChecklistId THEN row ELSE checklists[c]]
          ELSE checklists
     /\ nextChecklistId' = IF found THEN nextChecklistId + 1 ELSE nextChecklistId
     /\ Observe(obs, [op |-> "CreateChecklist", task_id |-> task_id,
                      title |-> title,
                      outcome |-> IF found THEN "ok" ELSE "rejected",
                      checklist |-> IF found THEN Some(nextChecklistId) ELSE None,
                      errors |-> IF found THEN <<>>
                                 ELSE <<"Task " \o task_id \o " not found">>])
     /\ UNCHANGED <<tasks, items, nextTaskId, nextItemId, txn>>

\* checklist.delete(): on_delete=CASCADE removes the checklist's items.
DeleteChecklistKeepsItems(checklist_id, obs) ==
  LET found == ChecklistExists(checklists, checklist_id)
      g == IdValue(checklist_id)
  IN /\ checklists' = IF found
                      THEN [c \in DOMAIN checklists \ {g} |-> checklists[c]]
                      ELSE checklists
     /\ Observe(obs, [op |-> "DeleteChecklist", checklist_id |-> checklist_id,
                      outcome |-> IF found THEN "ok" ELSE "rejected",
                      success |-> found,
                      deleted_id |-> IF found THEN Some(checklist_id) ELSE None,
                      errors |-> IF found THEN <<>>
                                 ELSE <<"Checklist " \o checklist_id
                                          \o " not found">>])
     /\ UNCHANGED <<tasks, items, nextTaskId, nextChecklistId, nextItemId, txn>>
DeleteChecklist(checklist_id, obs) ==
  LET found == ChecklistExists(checklists, checklist_id)
      g == IdValue(checklist_id)
  IN /\ checklists' = IF found
                      THEN [c \in DOMAIN checklists \ {g} |-> checklists[c]]
                      ELSE checklists
     /\ items' = IF found
                 THEN [i \in DOMAIN items \ ItemsOf(items, g) |-> items[i]]
                 ELSE items
     /\ Observe(obs, [op |-> "DeleteChecklist", checklist_id |-> checklist_id,
                      outcome |-> IF found THEN "ok" ELSE "rejected",
                      success |-> found,
                      deleted_id |-> IF found THEN Some(checklist_id) ELSE None,
                      errors |-> IF found THEN <<>>
                                 ELSE <<"Checklist " \o checklist_id
                                          \o " not found">>])
     /\ UNCHANGED <<tasks, nextTaskId, nextChecklistId, nextItemId, txn>>

(***************************************************************************)
(* ReorderChecklistItems.mutate                                            *)
(***************************************************************************)
\* list(ChecklistItem.objects.filter(id__in=item_ids, checklist=checklist)):
\* the rows of checklist g whose primary key is the value of some listed id,
\* each row once, in the model's default ordering (by position).
FilterItemsPerId(db, g, item_ids) ==
  LET hit == SelectSeq(item_ids, LAMBDA tok : IdValue(tok) \in ItemsOf(db, g))
  IN [k \in 1..Len(hit) |-> IdValue(hit[k])]
FilterItems(db, g, item_ids) ==
  OrderByPosition(db, {i \in ItemsOf(db, g) :
                         \E k \in 1..Len(item_ids) : IdValue(item_ids[k]) = i})

\* len(items) != len(item_ids)
ItemSetMismatchWhenEmpty(found, item_ids) == Len(found) = 0 /\ Len(item_ids) # 0
ItemSetMismatch(found, item_ids) == Len(found) # Len(item_ids)

\* {str(item_id): idx for idx, item_id in enumerate(item_ids)}: a later
\* occurrence of a key replaces an earlier one.
IdToPositionOneBased(item_ids) ==
  [tok \in {item_ids[k] : k \in 1..Len(item_ids)} |->
     SetMax({k \in 1..Len(item_ids) : item_ids[k] = tok})]
IdToPosition(item_ids) ==
  [tok \in {item_ids[k] : k \in 1..Len(item_ids)} |->
     SetMax({k \in 1..Len(item_ids) : item_ids[k] = tok}) - 1]

\* The loop over items: id_to_position[str(item.id)] raises KeyError when the
\* canonical string of a resolved primary key is not one of the listed ids.
RaisesKeyError(found, item_ids) ==
  \E k \in 1..Len(found) : Str(found[k]) \notin DOMAIN IdToPosition(item_ids)

\* items_to_update: the resolved items whose stored position differs from
\* the requested one, in list order.
ItemsToUpdate(db, found, item_ids) ==
  SelectSeq(found, LAMBDA i : db[i].position # IdToPosition(item_ids)[Str(i)])

\* bulk_update(items_to_update, ["position"]) after n rows have been written.
BulkUpdateSkipsFirst(db, upd, item_ids, n) ==
  [i \in DOMAIN db |->
     IF \E k \in 2..n : upd[k] = i
     THEN [db[i] EXCEPT !.position = IdToPosition(item_ids)[Str(i)]]
     ELSE db[i]]
BulkUpdateClearsCompleted(db, upd, item_ids, n) ==
  [i \in DOMAIN db |->
     IF \E k \in 1..n : upd[k] = i
     THEN [db[i] EXCEPT !.position = IdToPosition(item_ids)[Str(i)],
                        !.completed = FALSE]
     ELSE db[i]]
BulkUpdate(db, upd, item_ids, n) ==
  [i \in DOMAIN db |->
     IF \E k \in 1..n : upd[k] = i
     THEN [db[i] EXCEPT !.position = IdToPosition(item_ids)[Str(i)]]
     ELSE db[i]]

\* @transaction.atomic: an exception leaving the function rolls the store
\* back to what it was on entry, a normal return commits.
TransactionAtomicNoRollback(before, after, raised) == after
TransactionAtomic(before, after, raised) == IF raised THEN before ELSE after

\* list(ChecklistItem.objects.filter(checklist=checklist).order_by("position"))
UpdatedItemsById(db, g, found) ==
  OrderByPosition([i \in DOMAIN db |-> [position |-> 0]], ItemsOf(db, g))
UpdatedItemsStale(db, g, found) == found
UpdatedItems(db, g, found) == OrderByPosition(db, ItemsOf(db, g))

\* Points at which the store can fail during the batch write of a call: after
\* n rows of items_to_update, for n below its length.  None: no failure.
FailPoints(db, cls, checklist_id, item_ids) ==
  IF ~ChecklistExists(cls, checklist_id) THEN {None}
  ELSE LET found == FilterItems(db, IdValue(checklist_id), item_ids)
       IN IF ItemSetMismatch(found, item_ids) \/ RaisesKeyError(found, item_ids)
          THEN {None}
          ELSE Opt(0..(Len(ItemsToUpdate(db, found, item_ids)) - 1))

\* The whole call on store db: the store it leaves, and what it returns.
\* outcome "ok": payload without errors; "rejected": payload with errors;
\* "raised": an exception left the function (exception names it).
ReorderMutate(db, cls, checklist_id, item_ids, fail) ==
  IF ~ChecklistExists(cls, checklist_id)
  THEN [outcome |-> "rejected", db |-> db, items |-> None, checklist |-> None,
        errors |-> <<"Checklist " \o checklist_id \o " not found">>,
        exception |-> None]
  ELSE
  LET g == IdValue(checklist_id)
      found == FilterItems(db, g, item_ids)
  IN IF ItemSetMismatch(found, item_ids)
     THEN [outcome |-> "rejected", db |-> db, items |-> None, checklist |-> None,
           errors |-> <<"All items must belong to the specified checklist">>,
           exception |-> None]
     ELSE IF RaisesKeyError(found, item_ids)
     THEN [outcome |-> "raised", db |-> TransactionAtomic(db, db, TRUE),
           items |-> None, checklist |-> None, errors |-> <<>>,
           exception |-> Some("KeyError")]
     ELSE
     LET upd == ItemsToUpdate(db, found, item_ids)
         raised == fail # None
         written == BulkUpdate(db, upd, item_ids,
                               IF raised THEN fail[1] ELSE Len(upd))
         stored == TransactionAtomic(db, written, raised)
     IN IF raised
        THEN [outcome |-> "raised", db |-> stored, items |-> None,
              checklist |-> None, errors |-> <<>>,
              exception |-> Some("DatabaseError")]
        ELSE [outcome |-> "ok", db |-> stored,
              items |-> Some(UpdatedItems(stored, g, found)),
              checklist |-> Some(g), errors |-> <<>>, exception |-> None]

ReorderChecklistItems(checklist_id, item_ids, fail, obs) ==
  LET r == ReorderMutate(items, checklists, checklist_id, item_ids, fail)
  IN /\ items' = r.db
     /\ Observe(obs, [op |-> "ReorderChecklistItems",
                       checklist_id |-> checklist_id, item_ids |-> item_ids,
                       fail |-> fail, outcome |-> r.outcome, items |-> r.items,
                       checklist |-> r.checklist, errors |-> r.errors,
                       exception |-> r.exception])
     /\ UNCHANGED <<tasks, checklists, nextTaskId, nextChecklistId, nextItemId, txn>>

(***************************************************************************)
(* CreateTask.mutate                                                       *)
(***************************************************************************)
\* Task rows with the given status and priority.
Bucket(db, status, priority) ==
  {t \in DOMAIN db : db[t].status = status /\ db[t].priority = priority}

\* The order stored on a new task: the explicit one, or the one computed from
\* the maximum order among the tasks of the same status and priority.
AutoOrder(db, status, priority) ==
  LET max_order == AggregateMax({db[t].order : t \in Bucket(db, status, priority)})
  IN PyOr(max_order, 0) + 1

\* category if category.startswith("#") else "#" + category
HashPrefixedAlways(category) == <<"#">> \o category
HashPrefixed(category) ==
  IF category # <<>> /\ Head(category) = "#" THEN category ELSE <<"#">> \o category

CreateTaskMutate(db, id, title, status, category, priority, order) ==
  IF title = <<>> \/ Strip(title) = <<>>
  THEN [outcome |-> "rejected", db |-> db, task |-> None,
        errors |-> <<"Title cannot be empty">>]
  ELSE LET status_value == IF status # None THEN status[1] ELSE "TODO"
           priority_value == IF priority # None THEN priority[1] ELSE "P4"
           category_value == IF category # None /\ category[1] # <<>>
                             THEN HashPrefixed(category[1]) ELSE <<>>
           order_value == IF order = None
                          THEN AutoOrder(db, status_value, priority_value)
                          ELSE order[1]
           row == [title |-> Strip(title), description |-> <<>>,
                   status |-> status_value, category |-> category_value,
                   priority |-> priority_value, order |-> order_value,
                   updated_at |-> 0]
       IN [outcome |-> "ok", task |-> Some(id), errors |-> <<>>,
           db |-> [t \in DOMAIN db \cup {id} |-> IF t = id THEN row ELSE db[t]]]

CreateTask(title, status, category, priority, order, obs) ==
  LET r == CreateTaskMutate(tasks, nextTaskId, title, status, category,
                            priority, order)
  IN /\ nextTaskId <= MaxTasks
     /\ r.outcome = "ok" => r.db[nextTaskId].order <= MaxOrder
     /\ tasks' = r.db
     /\ nextTaskId' = IF r.outcome = "ok" THEN nextTaskId + 1 ELSE nextTaskId
     /\ Observe(obs, [op |-> "CreateTask", title |-> title, status |-> status,
                      category |-> category, priority |-> priority,
                      order |-> order, outcome |-> r.outcome, task |-> r.task,
                      errors |-> r.errors])
     /\ UNCHANGED <<checklists, items, nextChecklistId, nextItemId, txn>>

(***************************************************************************)
(* UpdateTask.mutate                                                       *)
(***************************************************************************)
UpdateTaskMutateOverwrites(db, id, title, description, status, category, priority, order) ==
  IF IdValue(id) \notin DOMAIN db
  THEN [outcome |-> "rejected", db |-> db, task |-> None,
        errors |-> <<"Task " \o id \o " not found">>]
  ELSE IF title # None /\ Strip(title[1]) = <<>>
  THEN [outcome |-> "rejected", db |-> db, task |-> None,
        errors |-> <<"Title cannot be empty">>]
  ELSE LET old == db[IdValue(id)]
           row == [title |-> IF title # None THEN Strip(title[1]) ELSE old.title,
                   description |-> IF description # None THEN description[1]
                                   ELSE <<>>,
                   status |-> IF status # None THEN status[1] ELSE old.status,
                   category |-> IF category = None THEN old.category
                                ELSE IF category[1] = <<>> THEN <<>>
                                ELSE HashPrefixed(category[1]),
                   priority |-> IF priority # None THEN priority[1]
                                ELSE old.priority,
                   order |-> IF order # None THEN order[1] ELSE old.order,
                   updated_at |-> AutoNow(old.updated_at)]
       IN [outcome |-> "ok", task |-> Some(IdValue(id)), errors |-> <<>>,
           db |-> [db EXCEPT ![IdValue(id)] = row]]
UpdateTaskMutate(db, id, title, description, status, category, priority, order) ==
  IF IdValue(id) \notin DOMAIN db
  THEN [outcome |-> "rejected", db |-> db, task |-> None,
        errors |-> <<"Task " \o id \o " not found">>]
  ELSE IF title # None /\ Strip(title[1]) = <<>>
  THEN [outcome |-> "rejected", db |-> db, task |-> None,
        errors |-> <<"Title cannot be empty">>]
  ELSE LET old == db[IdValue(id)]
           row == [title |-> IF title # None THEN Strip(title[1]) ELSE old.title,
                   description |-> IF description # None THEN description[1]
                                   ELSE old.description,
                   status |-> IF status # None THEN status[1] ELSE old.status,
                   category |-> IF category = None THEN old.category
                                ELSE IF category[1] = <<>> THEN <<>>
                                ELSE HashPrefixed(category[1]),
                   priority |-> IF priority # None THEN priority[1]
                                ELSE old.priority,
                   order |-> IF order # None THEN order[1] ELSE old.order,
                   updated_at |-> AutoNow(old.updated_at)]
       IN [outcome |-> "ok", task |-> Some(IdValue(id)), errors |-> <<>>,
           db |-> [db EXCEPT ![IdValue(id)] = row]]

UpdateTask(id, title, description, status, category, priority, order, obs) ==
  LET r == UpdateTaskMutate(tasks, id, title, description, status, category,
                            priority, order)
  IN /\ tasks' = r.db
     /\ r.outcome = "ok" => r.db[IdValue(id)].updated_at <= MaxSaves
     /\ Observe(obs, [op |-> "UpdateTask", id |-> id, title |-> title,
                      description |-> description, status |-> status,
                      category |-> category, priority |-> priority,
                      order |-> order, outcome |-> r.outcome, task |-> r.task,
                      errors |-> r.errors])
     /\ UNCHANGED <<checklists, items, nextTaskId, nextChecklistId, nextItemId, txn>>

(***************************************************************************)
(* DeleteTask.mutate                                                       *)
(***************************************************************************)
\* task.delete(): on_delete=CASCADE removes the task's checklists and the
\* items of those checklists.
DeleteTask(id, obs) ==
  LET found == IdValue(id) \in DOMAIN tasks
      gone == {c \in DOMAIN checklists : checklists[c].task = IdValue(id)}
  IN /\ tasks' = IF found THEN [t \in DOMAIN tasks \ {IdValue(id)} |-> tasks[t]]
                 ELSE tasks
     /\ checklists' = IF found
                      THEN [c \in DOMAIN checklists \ gone |-> checklists[c]]
                      ELSE checklists
     /\ items' = IF found
                 THEN [i \in {j \in DOMAIN items : items[j].checklist \notin gone}
                         |-> items[i]]
                 ELSE items
     /\ Observe(obs, [op |-> "DeleteTask", id |-> id,
                      outcome |-> IF found THEN "ok" ELSE "rejected",
                      success |-> found,
                      deleted_id |-> IF found THEN Some(id) ELSE None,
                      errors |-> IF found THEN <<>>
                                 ELSE <<"Task " \o id \o " not found">>])
     /\ UNCHANGED <<nextTaskId, nextChecklistId, nextItemId, txn>>

(***************************************************************************)
(* The ariadne resolvers resolve_create_task, resolve_update_task and      *)
(* resolve_delete_task.                                                    *)
(***************************************************************************)
\* category = f"#{category}" if category and not category.startswith("#")
ResolverCategory(category) ==
  IF category # <<>> /\ Head(category) # "#" THEN <<"#">> \o category
  ELSE category

\* Task.objects.create(...): the title is stored as given, the order column
\* takes its default.
ResolveCreateTaskMutateKeepsEmpty(db, id, title, status, category, priority) ==
  LET row == [title |-> title, description |-> <<>>,
              status |-> IF status # None THEN status[1] ELSE "TODO",
              category |-> IF category # None THEN ResolverCategory(category[1])
                           ELSE <<>>,
              priority |-> IF priority # None THEN priority[1] ELSE "P4",
              order |-> 0, updated_at |-> 0]
  IN [outcome |-> "ok", task |-> Some(id), errors |-> None,
      db |-> [t \in DOMAIN db \cup {id} |-> IF t = id THEN row ELSE db[t]]]
ResolveCreateTaskMutate(db, id, title, status, category, priority) ==
  LET row == [title |-> title, description |-> <<>>,
              status |-> IF status # None /\ status[1] # "" THEN status[1]
                         ELSE "TODO",
              category |-> IF category # None THEN ResolverCategory(category[1])
                           ELSE <<>>,
              priority |-> IF priority # None /\ priority[1] # "" THEN priority[1]
                           ELSE "P4",
              order |-> 0, updated_at |-> 0]
  IN [outcome |-> "ok", task |-> Some(id), errors |-> None,
      db |-> [t \in DOMAIN db \cup {id} |-> IF t = id THEN row ELSE db[t]]]

ResolveCreateTask(title, status, category, priority, obs) ==
  LET r == ResolveCreateTaskMutate(tasks, nextTaskId, title, status, category,
                                   priority)
  IN /\ nextTaskId <= MaxTasks
     /\ tasks' = r.db
     /\ nextTaskId' = nextTaskId + 1
     /\ Observe(obs, [op |-> "resolve_create_task", title |-> title,
                      status |-> status, category |-> category,
                      priority |-> priority, outcome |-> r.outcome,
                      task |-> r.task, errors |-> r.errors])
     /\ UNCHANGED <<checklists, items, nextChecklistId, nextItemId, txn>>

\* task.full_clean(): the errors by field, in field order.
FullClean(row) ==
  (IF row.title = <<>>
   THEN <<[field |-> "title", message |-> "This field cannot be blank."]>>
   ELSE IF Len(row.title) > 255
   THEN <<[field |-> "title",
           message |-> "Ensure this value has at most 255 characters (it has "
                       \o ToString(Len(row.title)) \o ")."]>>
   ELSE <<>>)
  \o (IF row.status = ""
      THEN <<[field |-> "status", message |-> "This field cannot be blank."]>>
      ELSE IF row.status \notin Statuses
      THEN <<[field |-> "status",
              message |-> "Value '" \o row.status
                          \o "' is not a valid choice."]>>
      ELSE <<>>)
  \o (IF Len(row.category) > 50
      THEN <<[field |-> "category",
              message |-> "Ensure this value has at most 50 characters (it has "
                          \o ToString(Len(row.category)) \o ")."]>>
      ELSE <<>>)
  \o (IF row.priority = ""
      THEN <<[field |-> "priority", message |-> "This field cannot be blank."]>>
      ELSE IF row.priority \notin Priorities
      THEN <<[field |-> "priority",
              message |-> "Value '" \o row.priority
                          \o "' is not a valid choice."]>>
      ELSE <<>>)
  \o (IF row.order < 0
      THEN <<[field |-> "order",
              message |-> "Ensure this value is greater than or equal to 0."]>>
      ELSE <<>>)

\* task.save() of the object the resolver changed.
Saved(row) == [row EXCEPT !.updated_at = AutoNow(@)]

ResolveUpdateTaskUnvalidated(db, id, title, description, status, category, priority) ==
  IF IdValue(id) \notin DOMAIN db
  THEN [outcome |-> "rejected", db |-> db, task |-> None,
        errors |-> Some(<<[field |-> "id",
                           message |-> "Task " \o id \o " not found"]>>)]
  ELSE LET old == db[IdValue(id)]
           row == [old EXCEPT
                     !.title = IF title # None THEN title[1] ELSE @,
                     !.description = IF description # None THEN description[1]
                                     ELSE @,
                     !.status = IF status # None THEN status[1] ELSE @,
                     !.category = IF category # None
                                  THEN ResolverCategory(category[1]) ELSE @,
                     !.priority = IF priority # None THEN priority[1] ELSE @]
       IN IF FullClean(row) # <<>>
          THEN [outcome |-> "rejected", db |-> [db EXCEPT ![IdValue(id)] = Saved(row)],
                task |-> None, errors |-> Some(FullClean(row))]
          ELSE [outcome |-> "ok", task |-> Some(IdValue(id)), errors |-> None,
                db |-> [db EXCEPT ![IdValue(id)] = Saved(row)]]
ResolveUpdateTaskMutate(db, id, title, description, status, category, priority) ==
  IF IdValue(id) \notin DOMAIN db
  THEN [outcome |-> "rejected", db |-> db, task |-> None,
        errors |-> Some(<<[field |-> "id",
                           message |-> "Task " \o id \o " not found"]>>)]
  ELSE LET old == db[IdValue(id)]
           row == [old EXCEPT
                     !.title = IF title # None THEN title[1] ELSE @,
                     !.description = IF description # None THEN description[1]
                                     ELSE @,
                     !.status = IF status # None THEN status[1] ELSE @,
                     !.category = IF category # None
                                  THEN ResolverCategory(category[1]) ELSE @,
                     !.priority = IF priority # None THEN priority[1] ELSE @]
       IN IF FullClean(row) # <<>>
          THEN [outcome |-> "rejected", db |-> db, task |-> None,
                errors |-> Some(FullClean(row))]
          ELSE [outcome |-> "ok", task |-> Some(IdValue(id)), errors |-> None,
                db |-> [db EXCEPT ![IdValue(id)] = Saved(row)]]

ResolveUpdateTask(id, title, description, status, category, priority, obs) ==
  LET r == ResolveUpdateTaskMutate(tasks, id, title, description, status,
                                   category, priority)
  IN /\ tasks' = r.db
     /\ r.outcome = "ok" => r.db[IdValue(id)].updated_at <= MaxSaves
     /\ Observe(obs, [op |-> "resolve_update_task", id |-> id, title |-> title,
                      description |-> description, status |-> status,
                      category |-> category, priority |-> priority,
                      order |-> None, outcome |-> r.outcome, task |-> r.task,
                      errors |-> r.errors])
     /\ UNCHANGED <<checklists, items, nextTaskId, nextChecklistId, nextItemId, txn>>

\* task = Task.objects.get(pk=id); task.delete()
ResolveDeleteTaskKeepsRow(db, id) ==
  IF IdValue(id) \notin DOMAIN db
  THEN [outcome |-> "rejected", db |-> db, success |-> FALSE,
        errors |-> Some(<<[field |-> "id",
                           message |-> "Task " \o id \o " not found"]>>)]
  ELSE [outcome |-> "ok", success |-> TRUE, errors |-> None, db |-> db]
ResolveDeleteTaskMutate(db, id) ==
  IF IdValue(id) \notin DOMAIN db
  THEN [outcome |-> "rejected", db |-> db, success |-> FALSE,
        errors |-> Some(<<[field |-> "id",
                           message |-> "Task " \o id \o " not found"]>>)]
  ELSE [outcome |-> "ok", success |-> TRUE, errors |-> None,
        db |-> [t \in DOMAIN db \ {IdValue(id)} |-> db[t]]]

\* on_delete=CASCADE removes the checklists of a deleted task and their items.
ResolveDeleteTask(id, obs) ==
  LET r == ResolveDeleteTaskMutate(tasks, id)
      gone == {c \in DOMAIN checklists : checklists[c].task \notin DOMAIN r.db}
  IN /\ tasks' = r.db
     /\ checklists' = [c \in DOMAIN checklists \ gone |-> checklists[c]]
     /\ items' = [i \in {j \in DOMAIN items : items[j].checklist \notin gone}
                    |-> items[i]]
     /\ Observe(obs, [op |-> "resolve_delete_task", id |-> id,
                      outcome |-> r.outcome, success |-> r.success,
                      errors |-> r.errors])
     /\ UNCHANGED <<nextTaskId, nextChecklistId, nextItemId, txn>>

(***************************************************************************)
(* The MCP tool create_task.                                               *)
(***************************************************************************)
VALID_STATUSES == {"TODO", "DOING", "WAITING", "DONE"}
VALID_PRIORITIES == {"P1", "P2", "P3", "P4"}
\* f". Must be one of: {', '.join(VALID_STATUSES)}", in the order of the lists.
MustBeOneOfStatuses == ". Must be one of: TODO, DOING, WAITING, DONE"
MustBeOneOfPriorities == ". Must be one of: P1, P2, P3, P4"

\* A keyword argument with a default value: None stands for an argument the
\* caller left out.
DefaultArgIgnored(arg, default) == default
DefaultArg(arg, default) == IF arg = None THEN default ELSE arg[1]

McpCreateTaskMutate(db, id, title, description, status, priority, category) ==
  LET status_value == DefaultArg(status, "TODO")
      priority_value == DefaultArg(priority, "P4")
      row == [title |-> title, description |-> DefaultArg(description, <<>>),
              status |-> status_value,
              category |-> DefaultArg(category, <<>>),
              priority |-> priority_value, order |-> 0,
              updated_at |-> 0]
  IN IF status_value \notin VALID_STATUSES
     THEN [outcome |-> "rejected", db |-> db, task |-> None,
           error |-> Some("Invalid status: " \o status_value \o MustBeOneOfStatuses)]
     ELSE IF priority_value \notin VALID_PRIORITIES
     THEN [outcome |-> "rejected", db |-> db, task |-> None,
           error |-> Some("Invalid priority: " \o priority_value \o MustBeOneOfPriorities)]
     ELSE [outcome |-> "ok", task |-> Some(id), error |-> None,
           db |-> [t \in DOMAIN db \cup {id} |-> IF t = id THEN row ELSE db[t]]]

McpCreateTask(title, description, status, priority, category, obs) ==
  LET r == McpCreateTaskMutate(tasks, nextTaskId, title, description, status,
                               priority, category)
  IN /\ nextTaskId <= MaxTasks
     /\ tasks' = r.db
     /\ nextTaskId' = IF r.outcome = "ok" THEN nextTaskId + 1 ELSE nextTaskId
     /\ Observe(obs, [op |-> "create_task", title |-> title,
                      description |-> description, status |-> status,
                      priority |-> priority, category |-> category,
                      outcome |-> r.outcome, task |-> r.task,
                      errors |-> r.error])
     /\ UNCHANGED <<checklists, items, nextChecklistId, nextItemId, txn>>

(***************************************************************************)
(* The MCP tool update_task.  The id is an integer; an argument the caller *)
(* left out is None.                                                       *)
(***************************************************************************)
\* if status and status not in VALID_STATUSES: the empty string is false.
InvalidChoiceOrEmpty(arg, choices) == arg # None /\ arg[1] \notin choices
InvalidChoice(arg, choices) ==
  arg # None /\ arg[1] # "" /\ arg[1] \notin choices

\* Lines 331-360: validate, read the task (await get_task_by_id) and set the
\* passed attributes on the object read.
McpUpdateTaskRead(db, id, title, description, status, priority, category) ==
  IF InvalidChoice(status, VALID_STATUSES)
  THEN [outcome |-> "rejected", task |-> None,
        error |-> Some("Invalid status: " \o status[1]
                       \o MustBeOneOfStatuses)]
  ELSE IF InvalidChoice(priority, VALID_PRIORITIES)
  THEN [outcome |-> "rejected", task |-> None,
        error |-> Some("Invalid priority: " \o priority[1]
                       \o MustBeOneOfPriorities)]
  ELSE IF id \notin DOMAIN db
  THEN [outcome |-> "rejected", task |-> None,
        error |-> Some("Task with id " \o Str(id) \o " not found")]
  ELSE LET old == db[id]
       IN [outcome |-> "read", error |-> None,
           task |-> Some([title |-> DefaultArg(title, old.title),
                          description |->
                            DefaultArg(description, old.description),
                          status |-> DefaultArg(status, old.status),
                          category |-> DefaultArg(category, old.category),
                          priority |-> DefaultArg(priority, old.priority),
                          order |-> old.order,
                          updated_at |-> old.updated_at])]

\* task.save(): an UPDATE of every column of the row with the object's key,
\* and an INSERT of the object when the UPDATE matched no row.
SaveTask(db, id, row) ==
  LET held == IF id \in DOMAIN db /\ db[id].updated_at > row.updated_at
              THEN db[id].updated_at ELSE row.updated_at
      saved == [row EXCEPT !.updated_at = AutoNow(held)]
  IN [t \in DOMAIN db \cup {id} |-> IF t = id THEN saved ELSE db[t]]

\* A tool call is a coroutine of the server's event loop: at each await the
\* steps of another call may run.  First part of update_task by caller p, up
\* to `await get_task_by_id(id)`; a call that returns an error ends here.
McpUpdateTaskBegin(p, id, title, description, status, priority, category, obs) ==
  LET r == McpUpdateTaskRead(tasks, id, title, description, status, priority,
                             category)
  IN /\ txn.calls[p].pc = "idle"
     /\ txn' = IF r.outcome = "rejected" THEN txn
               ELSE [txn EXCEPT !.calls[p] =
                       [pc |-> "update_task", id |-> id, task |-> r.task[1],
                        status |-> status, priority |-> priority,
                        obs |-> obs]]
     /\ Observe(obs /\ r.outcome = "rejected",
                [op |-> "update_task", id |-> id, status |-> status,
                 priority |-> priority, outcome |-> "rejected",
                 errors |-> r.error])
     /\ UNCHANGED <<tasks, checklists, items, nextTaskId, nextChecklistId,
                    nextItemId>>

\* Second part of update_task by caller p: `await save_task(task)` with the
\* object read before, and the success payload.
McpUpdateTaskEnd(p) ==
  LET call == txn.calls[p]
  IN /\ call.pc = "update_task"
     /\ tasks' = SaveTask(tasks, call.id, call.task)
     /\ tasks'[call.id].updated_at <= MaxSaves
     /\ txn' = [txn EXCEPT !.calls[p] = [pc |-> "idle"]]
     /\ Observe(call.obs,
                [op |-> "update_task", id |-> call.id, status |-> call.status,
                 priority |-> call.priority, outcome |-> "ok",
                 errors |-> None])
     /\ UNCHANGED <<checklists, items, nextTaskId, nextChecklistId,
                    nextItemId>>

(***************************************************************************)
(* The MCP tool delete_task.                                               *)
(***************************************************************************)
\* First part of delete_task by caller p, up to `await get_task_by_id(id)`.
McpDeleteTaskBegin(p, id, obs) ==
  LET found == id \in DOMAIN tasks
  IN /\ txn.calls[p].pc = "idle"
     /\ txn' = IF ~found THEN txn
               ELSE [txn EXCEPT !.calls[p] =
                       [pc |-> "delete_task", id |-> id, obs |-> obs]]
     /\ Observe(obs /\ ~found,
                [op |-> "delete_task", id |-> id, outcome |-> "rejected",
                 errors |-> Some("Task with id " \o Str(id) \o " not found")])
     /\ UNCHANGED <<tasks, checklists, items, nextTaskId, nextChecklistId,
                    nextItemId>>

\* Second part of delete_task by caller p: `await delete_task_sync(task)`.
\* task.delete() removes the row with the object's key, if it is still
\* stored, and by on_delete=CASCADE its checklists and their items.
McpDeleteTaskEnd(p) ==
  LET call == txn.calls[p]
      gone == {c \in DOMAIN checklists : checklists[c].task = call.id}
  IN /\ call.pc = "delete_task"
     /\ tasks' = [t \in DOMAIN tasks \ {call.id} |-> tasks[t]]
     /\ checklists' = [c \in DOMAIN checklists \ gone |-> checklists[c]]
     /\ items' = [i \in {j \in DOMAIN items : items[j].checklist \notin gone}
                    |-> items[i]]
     /\ txn' = [txn EXCEPT !.calls[p] = [pc |-> "idle"]]
     /\ Observe(call.obs,
                [op |-> "delete_task", id |-> call.id, outcome |-> "ok",
                 errors |-> None])
     /\ UNCHANGED <<nextTaskId, nextChecklistId, nextItemId>>

(***************************************************************************)
(* Checklist.progress: int((completed / total) * 100) on Python floats     *)
(* (IEEE 754 doubles, round to nearest even).  A float is zero or a record *)
(* [sig, exp] that stands for sig * 2^(exp - 3 * LimbBits): sig is a       *)
(* positive integer of at most Mantissa significant bits, written as a     *)
(* sequence of limbs of LimbBits bits, most significant first.             *)
(***************************************************************************)
\* Bits of the significand of a double.
Mantissa == 53
\* Three limbs hold the Mantissa bits of a quotient and the bit after them.
LimbBits == 18
Limb == 2 ^ LimbBits

FloatZero == [sig |-> <<>>, exp |-> 0]

\* The number of binary digits of n.
RECURSIVE BitLength(_)
BitLength(n) == IF n = 0 THEN 0 ELSE 1 + BitLength(n \div 2)

\* limbs + n for a small n.
RECURSIVE AddLimbs(_, _)
AddLimbs(limbs, n) ==
  IF limbs = <<>> THEN (IF n = 0 THEN <<>> ELSE <<n>>)
  ELSE LET v == limbs[Len(limbs)] + n
       IN AddLimbs(SubSeq(limbs, 1, Len(limbs) - 1), v \div Limb)
            \o <<v % Limb>>

\* limbs * m + carry for small m and carry.
RECURSIVE MulSmall(_, _, _)
MulSmall(limbs, m, carry) ==
  IF limbs = <<>> THEN (IF carry = 0 THEN <<>> ELSE <<carry>>)
  ELSE LET v == limbs[Len(limbs)] * m + carry
       IN MulSmall(SubSeq(limbs, 1, Len(limbs) - 1), m, v \div Limb)
            \o <<v % Limb>>

\* The exact value limbs (+ a fraction when sticky) rounded to a multiple of
\* 2^drop, ties to the even multiple; drop is between 1 and LimbBits - 1.
RoundNearestEven(limbs, drop, sticky) ==
  LET low == limbs[Len(limbs)]
      guard == (low \div (2 ^ (drop - 1))) % 2
      rest == sticky \/ (low % (2 ^ (drop - 1))) # 0
      lsb == (low \div (2 ^ drop)) % 2
      down == [limbs EXCEPT ![Len(limbs)] = low - (low % (2 ^ drop))]
  IN IF guard = 1 /\ (rest \/ lsb = 1) THEN AddLimbs(down, 2 ^ drop) ELSE down

\* Binary long division of rem / t, for 0 < rem <= t: skip the leading zero
\* bits of the quotient.
RECURSIVE Normalize(_, _, _)
Normalize(rem, t, zeros) ==
  IF 2 * rem < t THEN Normalize(2 * rem, t, zeros + 1)
  ELSE [rem |-> rem, zeros |-> zeros]

\* The next 3 * LimbBits bits of rem / t, and the remainder after them.
DivLimbs(rem, t) ==
  LET l1 == (rem * Limb) \div t
      r1 == (rem * Limb) % t
      l2 == (r1 * Limb) \div t
      r2 == (r1 * Limb) % t
      l3 == (r2 * Limb) \div t
      r3 == (r2 * Limb) % t
  IN [limbs |-> <<l1, l2, l3>>, rem |-> r3]

\* completed / total for integers 0 <= completed <= total, total > 0.
FloatDiv(completed, total) ==
  IF completed = 0 THEN FloatZero
  ELSE IF completed = total THEN [sig |-> <<Limb \div 2, 0, 0>>, exp |-> 1]
  ELSE LET start == Normalize(completed, total, 0)
           q == DivLimbs(start.rem, total)
           r == RoundNearestEven(q.limbs, 3 * LimbBits - Mantissa, q.rem # 0)
       IN IF Len(r) > 3
          THEN [sig |-> <<Limb \div 2, 0, 0>>, exp |-> 1 - start.zeros]
          ELSE [sig |-> r, exp |-> 0 - start.zeros]

\* x * m for a float x and a small positive integer m.
FloatMul(x, m) ==
  IF x = FloatZero THEN FloatZero
  ELSE LET product == MulSmall(x.sig, m, 0)
           bits == (Len(product) - 1) * LimbBits + BitLength(product[1])
       IN IF bits <= Mantissa THEN [sig |-> product, exp |-> x.exp]
          ELSE [sig |-> RoundNearestEven(product, bits - Mantissa, FALSE),
                exp |-> x.exp]

\* The integer the limbs stand for (it fits the machine integer).
RECURSIVE LimbsValue(_)
LimbsValue(limbs) ==
  IF limbs = <<>> THEN 0
  ELSE LimbsValue(SubSeq(limbs, 1, Len(limbs) - 1)) * Limb + limbs[Len(limbs)]

\* int(x): the integer part of a float.
PyInt(x) ==
  IF x = FloatZero THEN 0
  ELSE LET shift == 3 * LimbBits - x.exp
           whole == shift \div LimbBits
       IN IF whole >= Len(x.sig) THEN 0
          ELSE LimbsValue(SubSeq(x.sig, 1, Len(x.sig) - whole))
                 \div (2 ^ (shift % LimbBits))

\* The progress property of checklist g.
Progress(db, g) ==
  LET total == Cardinality(ItemsOf(db, g))
      completed == Cardinality({i \in ItemsOf(db, g) : db[i].completed})
  IN IF total = 0 THEN 0
     ELSE PyInt(FloatMul(FloatDiv(completed, total), 100))

\* ChecklistType.resolve_progress: the read is the observed call.
ResolveProgress(g) ==
  /\ g \in DOMAIN checklists
  /\ last' = [op |-> "resolve_progress", checklist |-> g,
              progress |-> Progress(items, g)]
  /\ pre' = Tables
  /\ UNCHANGED <<tasks, checklists, items, nextTaskId, nextChecklistId,
                 nextItemId, txn>>

(***************************************************************************)
(* Inputs.                                                                 *)
(***************************************************************************)
\* GraphQL ID strings for items: the canonical strings of the primary keys
\* 1..MaxItems, of one key that is never assigned, and a string with a
\* leading zero that parses to key 1.
ItemIdTokens == {Str(n) : n \in 1..(MaxItems + 1)} \cup {"0" \o Str(1)}
\* ID strings for checklists: the two stored checklists and one absent one.
ChecklistIdTokens == {"1", "2", "3"}
\* item_ids lists of length 0..MaxLen.
ItemIdLists == UNION {[1..n -> ItemIdTokens] : n \in 0..MaxLen}
\* Item texts: empty, whitespace only, and a text with surrounding whitespace.
Texts == {<<>>, <<" ">>, <<" ", "a", " ">>}

(***************************************************************************)
(* Checklist-item operations on the store left by createTask(title "t")    *)
(* and two createChecklist(task 1, title "c") calls: one task with two     *)
(* checklists and no items.                                                *)
(***************************************************************************)
Init ==
  /\ tasks = (1 :> [title |-> <<"t">>, description |-> <<>>, status |-> "TODO",
                    category |-> <<>>, priority |-> "P4", order |-> 1,
                    updated_at |-> 0])
  /\ checklists = (1 :> [task |-> 1, title |-> <<"c">>]) @@
                  (2 :> [task |-> 1, title |-> <<"c">>])
  /\ items = <<>>
  /\ nextTaskId = 2
  /\ nextChecklistId = 3
  /\ nextItemId = 1
  /\ pre = [tasks |-> tasks, checklists |-> checklists, items |-> items]
  /\ last = [op |-> "none"]
  /\ txn = <<>>

\* No call has been observed yet.
Running == last.op = "none"

Next ==
  \/ \E c \in ChecklistIdTokens, t \in Texts, p \in Opt(0..MaxPos), obs \in BOOLEAN :
       Running /\ AddChecklistItem(c, t, p, obs)
  \/ \E i \in ItemIdTokens, obs \in BOOLEAN :
       Running /\ DeleteChecklistItem(i, obs)
  \/ \E c \in ChecklistIdTokens, s \in ItemIdLists, obs \in BOOLEAN :
       /\ Running
       /\ \E f \in FailPoints(items, checklists, c, s) :
            ReorderChecklistItems(c, s, f, obs)

Spec == Init /\ [][Next]_vars


(***************************************************************************)
(* Task operations on an empty store.                                      *)
(***************************************************************************)
\* ID strings for tasks: the keys 1..MaxTasks and one that is never assigned.
TaskIdTokens == {Str(n) : n \in 1..(MaxTasks + 1)}
\* Task titles: empty, and a title with leading whitespace.
Titles == {<<>>, <<" ", "t">>}

InitTasks ==
  /\ tasks = <<>>
  /\ checklists = <<>>
  /\ items = <<>>
  /\ nextTaskId = 1
  /\ nextChecklistId = 1
  /\ nextItemId = 1
  /\ pre = [tasks |-> tasks, checklists |-> checklists, items |-> items]
  /\ last = [op |-> "none"]
  /\ txn = <<>>

NextTasks ==
  \/ \E title \in Titles, status \in Opt({"DOING"}), priority \in Opt({"P1"}),
        order \in Opt(0..MaxOrder), obs \in BOOLEAN :
       Running /\ CreateTask(title, status, None, priority, order, obs)
  \/ \E id \in TaskIdTokens, status \in Opt({"DOING"}), priority \in Opt({"P1"}),
        obs \in BOOLEAN :
       Running /\ UpdateTask(id, None, None, status, None, priority, None, obs)
  \/ \E id \in TaskIdTokens, obs \in BOOLEAN : Running /\ DeleteTask(id, obs)

SpecTasks == InitTasks /\ [][NextTasks]_vars

(***************************************************************************)
(* The ten mutations of the Mutation class and the updateTask resolver on  *)
(* an empty store, with at most MaxAll tasks and MaxAll items ever created.*)
(* updateTask is passed a blank title, which either handler rejects.       *)
(***************************************************************************)
\* ID strings: the keys 1..MaxAll and one that is never assigned.
AllIdTokens == {Str(n) : n \in 1..(MaxAll + 1)}
\* item_ids lists of length 0..MaxAll.
AllItemIdLists == UNION {[1..n -> AllIdTokens] : n \in 0..MaxAll}

NextAll ==
  \/ \E title \in Titles, order \in Opt({1}), obs \in BOOLEAN :
       /\ Running
       /\ nextTaskId <= MaxAll
       /\ CreateTask(title, None, None, None, order, obs)
  \/ \E id \in AllIdTokens, obs \in BOOLEAN :
       /\ Running
       /\ UpdateTask(id, Some(<<" ">>), None, None, None, None, None, obs)
  \/ \E id \in AllIdTokens, obs \in BOOLEAN :
       /\ Running
       /\ ResolveUpdateTask(id, Some(<<>>), None, None, None, None, obs)
  \/ \E id \in AllIdTokens, obs \in BOOLEAN : Running /\ DeleteTask(id, obs)
  \/ \E t \in AllIdTokens, obs \in BOOLEAN :
       Running /\ CreateChecklist(t, <<"c">>, obs)
  \/ \E c \in AllIdTokens, obs \in BOOLEAN : Running /\ DeleteChecklist(c, obs)
  \/ \E c \in AllIdTokens, t \in {<<" ">>, <<"a">>}, p \in Opt(0..1),
        obs \in BOOLEAN :
       /\ Running
       /\ nextItemId <= MaxAll
       /\ AddChecklistItem(c, t, p, obs)
  \/ \E i \in AllIdTokens, obs \in BOOLEAN : Running /\ ToggleChecklistItem(i, obs)
  \/ \E i \in AllIdTokens, t \in Opt({<<" ">>}), obs \in BOOLEAN :
       Running /\ UpdateChecklistItem(i, t, None, obs)
  \/ \E i \in AllIdTokens, obs \in BOOLEAN : Running /\ DeleteChecklistItem(i, obs)
  \/ \E c \in AllIdTokens, s \in AllItemIdLists, obs \in BOOLEAN :
       /\ Running
       /\ \E f \in FailPoints(items, checklists, c, s) :
            ReorderChecklistItems(c, s, f, obs)

SpecAll == InitTasks /\ [][NextAll]_vars

(***************************************************************************)
(* updateTask, through the UpdateTask mutation and through the             *)
(* resolve_update_task resolver, with every subset of the optional         *)
(* arguments supplied, on the tasks left by createTask(title "t") calls.   *)
(***************************************************************************)
\* Titles passed to updateTask: empty, and one with leading whitespace.
UpdateTitles == {<<>>, <<" ", "u">>}
\* The first task, and a task that is never stored.
UpdateIdTokens == {Str(1), Str(MaxAll + 1)}

NextUpdate ==
  \/ \E obs \in BOOLEAN :
       /\ Running
       /\ nextTaskId <= MaxAll
       /\ CreateTask(<<"t">>, None, None, None, None, obs)
  \/ \E id \in UpdateIdTokens, title \in Opt(UpdateTitles),
        description \in Opt({<<"d">>}), status \in Opt({"DOING"}),
        category \in Opt({<<"x">>}), priority \in Opt({"P1"}),
        order \in Opt({0}), obs \in BOOLEAN :
       /\ Running
       /\ UpdateTask(id, title, description, status, category, priority,
                     order, obs)
  \/ \E id \in UpdateIdTokens, title \in Opt(UpdateTitles),
        description \in Opt({<<"d">>}), status \in Opt({"DOING"}),
        category \in Opt({<<"x">>}), priority \in Opt({"P1"}),
        obs \in BOOLEAN :
       /\ Running
       /\ ResolveUpdateTask(id, title, description, status, category,
                            priority, obs)

SpecUpdate == InitTasks /\ [][NextUpdate]_vars

(***************************************************************************)
(* Creating and deleting tasks through the Mutation class, the ariadne     *)
(* resolvers and the MCP tool, on an empty store.                          *)
(***************************************************************************)
\* Status and priority strings passed to the MCP tool: a valid one, the
\* empty string, and one that is not a choice.
McpStatuses == {"DOING", "", "LATER"}
McpPriorities == {"P1", "P9"}

NextTaskApi ==
  \/ \E title \in Titles, status \in Opt({"DOING"}), priority \in Opt({"P1"}),
        obs \in BOOLEAN :
       Running /\ CreateTask(title, status, None, priority, None, obs)
  \/ \E status \in Opt({"DOING", ""}), priority \in Opt({"P1", ""}),
        obs \in BOOLEAN :
       Running /\ ResolveCreateTask(<<"t">>, status, None, priority, obs)
  \/ \E status \in Opt(McpStatuses), priority \in Opt(McpPriorities),
        obs \in BOOLEAN :
       Running /\ McpCreateTask(<<"t">>, None, status, priority, None, obs)
  \/ \E id \in TaskIdTokens, obs \in BOOLEAN : Running /\ DeleteTask(id, obs)
  \/ \E id \in TaskIdTokens, obs \in BOOLEAN :
       Running /\ ResolveDeleteTask(id, obs)

SpecTaskApi == InitTasks /\ [][NextTaskApi]_vars

(***************************************************************************)
(* Two ReorderChecklistItems calls running concurrently on the sqlite3     *)
(* store of settings.py, each on its own connection.  @transaction.atomic  *)
(* runs a call as one BEGIN .. COMMIT: its first SELECT takes the SHARED   *)
(* lock of the database and keeps it to the end of the transaction, its    *)
(* UPDATE needs the RESERVED lock, which one connection holds at a time,   *)
(* and the COMMIT of a writer waits until no other connection holds the    *)
(* SHARED lock.  A connection that holds SHARED and is refused RESERVED    *)
(* gets "database is locked" at once.                                      *)
(***************************************************************************)
Procs == {1, 2}

\* Connection q is inside a transaction that has read.
HoldsSharedNever(calls, q) == FALSE
HoldsShared(calls, q) == calls[q].pc \in {"read", "written"}

\* Connection q has written and not yet committed.
HoldsReserved(calls, q) == calls[q].pc = "written"

\* Lines 319-344 of call p: look up the checklist, resolve and validate the
\* listed ids, and collect the items whose position as read differs from the
\* requested one.  The reads see the committed rows.
ReorderRead(p, checklist_id, item_ids) ==
  LET call == [checklist_id |-> checklist_id, item_ids |-> item_ids]
      found == FilterItems(items, IdValue(checklist_id), item_ids)
  IN /\ txn.calls[p].pc = "idle"
     /\ txn' = [txn EXCEPT !.calls[p] =
          IF ~ChecklistExists(checklists, checklist_id)
             \/ ItemSetMismatch(found, item_ids)
          THEN call @@ [pc |-> "done", outcome |-> "rejected", upd |-> <<>>]
          ELSE IF RaisesKeyError(found, item_ids)
          THEN call @@ [pc |-> "done", outcome |-> "raised", upd |-> <<>>]
          ELSE call @@ [pc |-> "read", outcome |-> "none",
                        upd |-> ItemsToUpdate(items, found, item_ids)]]
     /\ UNCHANGED <<tasks, checklists, items, nextTaskId, nextChecklistId,
                    nextItemId, pre, last>>

\* Lines 346-353 of call p.  With nothing to update there is no UPDATE: the
\* call returns and its transaction ends.  Otherwise the UPDATE takes the
\* RESERVED lock, or raises OperationalError when the other connection holds
\* it, and the transaction is rolled back.
\* overlap: the other call had read and not yet ended when this one wrote.
ReorderWrite(p) ==
  LET call == txn.calls[p]
      refused == \E q \in Procs \ {p} : HoldsReserved(txn.calls, q)
  IN /\ call.pc = "read"
     /\ items' = IF call.upd # <<>> /\ refused
                 THEN TransactionAtomic(items, items, TRUE)
                 ELSE items
     /\ txn' =
          IF call.upd = <<>>
          THEN [txn EXCEPT !.calls[p].pc = "done",
                           !.calls[p].outcome = "ok",
                           !.commits = Append(@, p)]
          ELSE IF refused
          THEN [txn EXCEPT !.calls[p].pc = "done",
                           !.calls[p].outcome = "raised"]
          ELSE [txn EXCEPT
                  !.calls[p].pc = "written",
                  !.overlap = @ \/ \E q \in Procs \ {p} :
                                     txn.calls[q].pc = "read"]
     /\ UNCHANGED <<tasks, checklists, nextTaskId, nextChecklistId, nextItemId,
                    pre, last>>

\* The COMMIT on leaving the atomic block of a call that has written: it
\* waits while the other connection holds the SHARED lock, then publishes the
\* batch.
ReorderEnd(p) ==
  LET call == txn.calls[p]
  IN /\ call.pc = "written"
     /\ ~\E q \in Procs \ {p} : HoldsShared(txn.calls, q)
     /\ items' = TransactionAtomic(
                   items,
                   BulkUpdate(items, call.upd, call.item_ids, Len(call.upd)),
                   FALSE)
     /\ txn' = [txn EXCEPT !.calls[p].pc = "done",
                           !.calls[p].outcome = "ok",
                           !.commits = Append(@, p)]
     /\ UNCHANGED <<tasks, checklists, nextTaskId, nextChecklistId, nextItemId,
                    pre, last>>

\* Lists of the ids of the stored items, of length 0..MaxLen.
StoredItemIdLists == UNION {[1..n -> {"1", "2", "3"}] : n \in 0..MaxLen}

\* The same store after three items were added to checklist 1 at positions
\* 0, 1, 2.
InitConc ==
  /\ tasks = (1 :> [title |-> <<"t">>, description |-> <<>>, status |-> "TODO",
                    category |-> <<>>, priority |-> "P4", order |-> 1,
                    updated_at |-> 0])
  /\ checklists = (1 :> [task |-> 1, title |-> <<"c">>]) @@
                  (2 :> [task |-> 1, title |-> <<"c">>])
  /\ items = [i \in 1..3 |-> [checklist |-> 1, text |-> <<"a">>,
                              position |-> i - 1, completed |-> FALSE]]
  /\ nextTaskId = 2
  /\ nextChecklistId = 3
  /\ nextItemId = 4
  /\ pre = [tasks |-> tasks, checklists |-> checklists, items |-> items]
  /\ last = [op |-> "none"]
  /\ txn = [calls |-> [p \in Procs |-> [pc |-> "idle"]], commits |-> <<>>,
            overlap |-> FALSE]

NextConc ==
  \/ \E p \in Procs, c \in ChecklistIdTokens, s \in StoredItemIdLists :
       ReorderRead(p, c, s)
  \/ \E p \in Procs : ReorderWrite(p)
  \/ \E p \in Procs : ReorderEnd(p)

SpecConc == InitConc /\ [][NextConc]_vars

(***************************************************************************)
(* A ReorderChecklistItems call running while another connection reads the *)
(* items (allTasks with its prefetch of checklists and items).  The call   *)
(* writes the rows of its batch one by one inside its transaction; the     *)
(* store publishes them on commit.                                         *)
(***************************************************************************)
\* What a connection outside the transaction reads: the committed rows, not
\* the rows the open transaction has written so far.
VisibleToOthersUncommitted(committed, working) == working
VisibleToOthers(committed, working) == committed

\* Lines 319-344: look up the checklist, resolve and validate the listed ids,
\* collect the batch.
ReorderBegin(checklist_id, item_ids) ==
  LET found == FilterItems(items, IdValue(checklist_id), item_ids)
      call == [checklist_id |-> checklist_id, item_ids |-> item_ids,
               before |-> items, working |-> items, n |-> 0]
  IN /\ txn.pc = "idle"
     /\ txn' =
          IF ~ChecklistExists(checklists, checklist_id)
             \/ ItemSetMismatch(found, item_ids)
          THEN call @@ [pc |-> "idle", outcome |-> "rejected", upd |-> <<>>]
          ELSE IF RaisesKeyError(found, item_ids)
          THEN call @@ [pc |-> "idle", outcome |-> "raised", upd |-> <<>>]
          ELSE call @@ [pc |-> "writing", outcome |-> "none",
                        upd |-> ItemsToUpdate(items, found, item_ids)]
     /\ UNCHANGED <<tasks, checklists, items, nextTaskId, nextChecklistId,
                    nextItemId, pre, last>>

\* Lines 346-348: the next row of the batch is written in the transaction.
ReorderWriteRow ==
  /\ txn.pc = "writing"
  /\ txn.n < Len(txn.upd)
  /\ txn' = [txn EXCEPT
               !.n = @ + 1,
               !.working = BulkUpdate(items, txn.upd, txn.item_ids, txn.n + 1)]
  /\ UNCHANGED <<tasks, checklists, items, nextTaskId, nextChecklistId,
                 nextItemId, pre, last>>

\* The store fails before the batch is complete: the exception leaves the
\* atomic block.
ReorderRaise ==
  /\ txn.pc = "writing"
  /\ txn.n < Len(txn.upd)
  /\ items' = TransactionAtomic(items, txn.working, TRUE)
  /\ txn' = [txn EXCEPT !.pc = "idle", !.outcome = "raised", !.working = items']
  /\ UNCHANGED <<tasks, checklists, nextTaskId, nextChecklistId, nextItemId,
                 pre, last>>

\* Lines 350-353 and the commit on leaving the atomic block.
ReorderCommit ==
  /\ txn.pc = "writing"
  /\ txn.n = Len(txn.upd)
  /\ items' = TransactionAtomic(items, txn.working, FALSE)
  /\ txn' = [txn EXCEPT !.pc = "idle", !.outcome = "ok"]
  /\ UNCHANGED <<tasks, checklists, nextTaskId, nextChecklistId, nextItemId,
                 pre, last>>

\* Another connection reads the items; the read is the observed call.
ReadItems ==
  /\ last' = [op |-> "ReadItems", call |-> txn,
              seen |-> VisibleToOthers(items, txn.working)]
  /\ pre' = Tables
  /\ UNCHANGED <<tasks, checklists, items, nextTaskId, nextChecklistId,
                 nextItemId, txn>>

InitRead ==
  /\ tasks = (1 :> [title |-> <<"t">>, description |-> <<>>, status |-> "TODO",
                    category |-> <<>>, priority |-> "P4", order |-> 1,
                    updated_at |-> 0])
  /\ checklists = (1 :> [task |-> 1, title |-> <<"c">>]) @@
                  (2 :> [task |-> 1, title |-> <<"c">>])
  /\ items = [i \in 1..3 |-> [checklist |-> 1, text |-> <<"a">>,
                              position |-> i - 1, completed |-> FALSE]]
  /\ nextTaskId = 2
  /\ nextChecklistId = 3
  /\ nextItemId = 4
  /\ pre = [tasks |-> tasks, checklists |-> checklists, items |-> items]
  /\ last = [op |-> "none"]
  /\ txn = [pc |-> "idle", outcome |-> "none", checklist_id |-> "1",
            item_ids |-> <<>>, before |-> items, working |-> items,
            upd |-> <<>>, n |-> 0]

NextRead ==
  \/ \E c \in ChecklistIdTokens, s \in StoredItemIdLists :
       Running /\ ReorderBegin(c, s)
  \/ Running /\ ReorderWriteRow
  \/ Running /\ ReorderRaise
  \/ Running /\ ReorderCommit
  \/ Running /\ ReadItems

SpecRead == InitRead /\ [][NextRead]_vars

(***************************************************************************)
(* Sequences of AddChecklistItem without a position, DeleteChecklistItem   *)
(* and ReorderChecklistItems listing every item of the checklist, on two   *)
(* empty checklists.                                                       *)
(***************************************************************************)
\* item_ids names every item of the checklist, each once.
FullList(db, checklist_id, item_ids) ==
  /\ {IdValue(item_ids[k]) : k \in 1..Len(item_ids)}
       = ItemsOf(db, IdValue(checklist_id))
  /\ Len(item_ids) = Cardinality(ItemsOf(db, IdValue(checklist_id)))

NextSeq ==
  \/ \E c \in ChecklistIdTokens : AddChecklistItem(c, <<"a">>, None, FALSE)
  \/ \E i \in ItemIdTokens : DeleteChecklistItem(i, FALSE)
  \/ \E c \in ChecklistIdTokens, s \in ItemIdLists :
       /\ FullList(items, c, s)
       /\ \E f \in FailPoints(items, checklists, c, s) :
            ReorderChecklistItems(c, s, f, FALSE)

SpecSeq == Init /\ [][NextSeq]_vars

(***************************************************************************)
(* Sequences of CreateTask without an order, UpdateTask of status or       *)
(* priority without an order, and DeleteTask, on an empty store.           *)
(***************************************************************************)
NextBuckets ==
  \/ \E status \in Opt({"DOING"}), priority \in Opt({"P1"}) :
       CreateTask(<<"t">>, status, None, priority, None, FALSE)
  \/ \E id \in TaskIdTokens, status \in Opt({"TODO", "DOING"}),
        priority \in Opt({"P1", "P4"}) :
       /\ status # None \/ priority # None
       /\ UpdateTask(id, None, None, status, None, priority, None, FALSE)
  \/ \E id \in TaskIdTokens : DeleteTask(id, FALSE)

SpecBuckets == InitTasks /\ [][NextBuckets]_vars

(***************************************************************************)
(* Reading the progress of a checklist that holds up to MaxTotal items of  *)
(* which any number are completed.                                         *)
(***************************************************************************)
InitProgress ==
  \E total \in 0..MaxTotal : \E completed \in 0..total :
    /\ tasks = (1 :> [title |-> <<"t">>, description |-> <<>>,
                      status |-> "TODO", category |-> <<>>,
                      priority |-> "P4", order |-> 1, updated_at |-> 0])
    /\ checklists = (1 :> [task |-> 1, title |-> <<"c">>]) @@
                    (2 :> [task |-> 1, title |-> <<"c">>])
    /\ items = [i \in 1..total |-> [checklist |-> 1, text |-> <<"a">>,
                                    position |-> i - 1,
                                    completed |-> i <= completed]]
    /\ nextTaskId = 2
    /\ nextChecklistId = 3
    /\ nextItemId = total + 1
    /\ pre = [tasks |-> tasks, checklists |-> checklists, items |-> items]
    /\ last = [op |-> "none"]
    /\ txn = <<>>

NextProgress == \E g \in 1..MaxChecklists : Running /\ ResolveProgress(g)

SpecProgress == InitProgress /\ [][NextProgress]_vars

(***************************************************************************)
(* createTask and updateTask with a category, through the Mutation class   *)
(* and through the ariadne resolvers, on an empty store.                   *)
(***************************************************************************)
\* Categories: empty, without the prefix, with it, and the prefix alone.
Categories == {<<>>, <<"x">>, <<"#", "x">>, <<"#">>}

NextCategory ==
  \/ \E category \in Opt(Categories), obs \in BOOLEAN :
       Running /\ CreateTask(<<"t">>, None, category, None, None, obs)
  \/ \E category \in Opt(Categories), obs \in BOOLEAN :
       Running /\ ResolveCreateTask(<<"t">>, None, category, None, obs)
  \/ \E id \in TaskIdTokens, category \in Opt(Categories), obs \in BOOLEAN :
       Running /\ UpdateTask(id, None, None, None, category, None, None, obs)
  \/ \E id \in TaskIdTokens, category \in Opt(Categories), obs \in BOOLEAN :
       Running /\ ResolveUpdateTask(id, None, None, None, category, None, obs)

SpecCategory == InitTasks /\ [][NextCategory]_vars

(***************************************************************************)
(* The MCP tools create_task, update_task and delete_task called with      *)
(* arbitrary strings by two callers of one server, on an empty store.      *)
(***************************************************************************)
\* Tasks ever created through the tool.
MaxMcpTasks == 1
\* The callers whose tool calls share the event loop.
Callers == {1, 2}

InitMcp ==
  /\ tasks = <<>>
  /\ checklists = <<>>
  /\ items = <<>>
  /\ nextTaskId = 1
  /\ nextChecklistId = 1
  /\ nextItemId = 1
  /\ pre = [tasks |-> tasks, checklists |-> checklists, items |-> items]
  /\ last = [op |-> "none"]
  /\ txn = [calls |-> [p \in Callers |-> [pc |-> "idle"]]]

NextMcp ==
  \/ \E status \in Opt(McpStatuses), priority \in Opt(McpPriorities \cup {""}),
        obs \in BOOLEAN :
       /\ Running
       /\ nextTaskId <= MaxMcpTasks
       /\ McpCreateTask(<<"t">>, None, status, priority, None, obs)
  \/ \E p \in Callers, id \in 1..(MaxMcpTasks + 1), title \in Opt({<<"a">>}),
        status \in Opt(McpStatuses), priority \in Opt(McpPriorities \cup {""}),
        obs \in BOOLEAN :
       /\ Running
       /\ McpUpdateTaskBegin(p, id, title, None, status, priority, None, obs)
  \/ \E p \in Callers : Running /\ McpUpdateTaskEnd(p)
  \/ \E p \in Callers, id \in 1..(MaxMcpTasks + 1), obs \in BOOLEAN :
       Running /\ McpDeleteTaskBegin(p, id, obs)
  \/ \E p \in Callers : Running /\ McpDeleteTaskEnd(p)

SpecMcp == InitMcp /\ [][NextMcp]_vars

(***************************************************************************)
(* Two AddChecklistItem calls without position running concurrently, each  *)
(* on its own connection in autocommit mode: the Max aggregate and the     *)
(* INSERT of one call are two statements, and statements of the other call *)
(* may run between them.  No constraint makes (checklist, position)        *)
(* unique.                                                                 *)
(***************************************************************************)
\* Lines 212-225 of call p: look up the checklist, validate the text, read the
\* maximum position and compute the new one.
AddRead(p, checklist_id, text) ==
  LET call == [checklist_id |-> checklist_id, text |-> text]
  IN /\ txn.calls[p].pc = "idle"
     /\ txn' = [txn EXCEPT !.calls[p] =
          IF ~ChecklistExists(checklists, checklist_id)
             \/ text = <<>> \/ Strip(text) = <<>>
          THEN call @@ [pc |-> "done", outcome |-> "rejected", item |-> None,
                        raced |-> FALSE]
          ELSE call @@ [pc |-> "read", outcome |-> "none", item |-> None,
                        raced |-> FALSE,
                        position |->
                          AutoPosition(items, IdValue(checklist_id))]]
     /\ UNCHANGED <<tasks, checklists, items, nextTaskId, nextChecklistId,
                    nextItemId, pre, last>>

\* Lines 227-229 of call p: the INSERT with the position computed before.
\* raced: the other call has read the same checklist and not yet inserted.
AddInsert(p) ==
  LET call == txn.calls[p]
      row == [checklist |-> IdValue(call.checklist_id),
              text |-> Strip(call.text), position |-> call.position,
              completed |-> FALSE]
  IN /\ call.pc = "read"
     /\ items' = [i \in DOMAIN items \cup {nextItemId} |->
                    IF i = nextItemId THEN row ELSE items[i]]
     /\ nextItemId' = nextItemId + 1
     /\ txn' = [txn EXCEPT
                  !.calls[p].pc = "done",
                  !.calls[p].outcome = "ok",
                  !.calls[p].item = Some(nextItemId),
                  !.calls[p].raced =
                    \E q \in Procs \ {p} :
                      /\ txn.calls[q].pc = "read"
                      /\ IdValue(txn.calls[q].checklist_id)
                           = IdValue(call.checklist_id)]
     /\ UNCHANGED <<tasks, checklists, nextTaskId, nextChecklistId, pre, last>>

\* One task with two checklists: items 1 and 2 in checklist 1 at positions
\* 0 and 1, item 3 in checklist 2, added with position 1.
InitAdd ==
  /\ tasks = (1 :> [title |-> <<"t">>, description |-> <<>>, status |-> "TODO",
                    category |-> <<>>, priority |-> "P4", order |-> 1,
                    updated_at |-> 0])
  /\ checklists = (1 :> [task |-> 1, title |-> <<"c">>]) @@
                  (2 :> [task |-> 1, title |-> <<"c">>])
  /\ items = (1 :> [checklist |-> 1, text |-> <<"a">>, position |-> 0,
                    completed |-> FALSE]) @@
             (2 :> [checklist |-> 1, text |-> <<"a">>, position |-> 1,
                    completed |-> FALSE]) @@
             (3 :> [checklist |-> 2, text |-> <<"a">>, position |-> 1,
                    completed |-> FALSE])
  /\ nextTaskId = 2
  /\ nextChecklistId = 3
  /\ nextItemId = 4
  /\ pre = [tasks |-> tasks, checklists |-> checklists, items |-> items]
  /\ last = [op |-> "none"]
  /\ txn = [calls |-> [p \in Procs |-> [pc |-> "idle"]]]

NextAdd ==
  \/ \E p \in Procs, c \in ChecklistIdTokens, text \in Texts :
       AddRead(p, c, text)
  \/ \E p \in Procs : AddInsert(p)

SpecAdd == InitAdd /\ [][NextAdd]_vars

(***************************************************************************)
(* Properties of the observed call.                                        *)
(***************************************************************************)
Reordered == last.op = "ReorderChecklistItems"
ReorderedOk == Reordered /\ last.outcome = "ok"

\* The primary keys the listed ids of the observed reorder stand for.
ListedKeys == {IdValue(last.item_ids[k]) : k \in 1..Len(last.item_ids)}

\* No two items of checklist g share a position in store db.
DistinctPositions(db, g) ==
  \A i, j \in ItemsOf(db, g) : i # j => db[i].position # db[j].position

\* C1: a successful ReorderChecklistItems(G, S) leaves the item S[i] with
\* stored position i (counted from 0) for every index i, and leaves the stored
\* position of every item of G that is not in S as it was before the call.
C1_ReorderAssignsIndices ==
  ReorderedOk =>
    LET g == IdValue(last.checklist_id)
        S == last.item_ids
    IN /\ \A k \in 1..Len(S) :
            /\ IdValue(S[k]) \in ItemsOf(items, g)
            /\ items[IdValue(S[k])].position = k - 1
       /\ \A i \in ItemsOf(pre.items, g) \ ListedKeys :
            /\ i \in DOMAIN items
            /\ items[i].position = pre.items[i].position

\* C1 witness: items 1, 2, 3 of checklist 1 stood at positions 0, 1, 2 and
\* the call reordered them with [3, 1, 2].
C1_Witness ==
  /\ ReorderedOk
  /\ last.checklist_id = "1"
  /\ last.item_ids = <<"3", "1", "2">>
  /\ ItemsOf(pre.items, 1) = {1, 2, 3}
  /\ \A i \in 1..3 : pre.items[i].position = i - 1
  /\ items[3].position = 0 /\ items[1].position = 1 /\ items[2].position = 2

\* C2: AddChecklistItem without an explicit position stores the new item at
\* max(existing positions of the checklist) + 1, and at 0 when the checklist
\* has no items.
C2_AutoPositionIsMaxPlusOne ==
  (last.op = "AddChecklistItem" /\ last.outcome = "ok" /\ last.position = None) =>
    LET g == IdValue(last.checklist_id)
        existing == {pre.items[i].position : i \in ItemsOf(pre.items, g)}
    IN items[last.item[1]].position =
         IF existing = {} THEN 0 ELSE SetMax(existing) + 1

\* C4: ReorderChecklistItems(G, S) on an existing checklist G where S lists
\* an id that is not the id of an item of G is rejected with the validation
\* error and leaves every stored item as it was.
C4_ForeignIdRejected ==
  (/\ Reordered
   /\ IdValue(last.checklist_id) \in DOMAIN pre.checklists
   /\ ListedKeys \ ItemsOf(pre.items, IdValue(last.checklist_id)) # {}) =>
    /\ last.outcome = "rejected"
    /\ last.errors = <<"All items must belong to the specified checklist">>
    /\ items = pre.items

\* C4 witness: the call on checklist 1 listed an item of checklist 1 together
\* with an item of checklist 2, and another item of checklist 1 is stored.
C4_Witness ==
  /\ Reordered
  /\ last.checklist_id = "1"
  /\ Len(last.item_ids) = 2
  /\ ListedKeys \cap ItemsOf(pre.items, 1) # {}
  /\ ListedKeys \cap ItemsOf(pre.items, 2) # {}
  /\ ItemsOf(pre.items, 1) \ ListedKeys # {}
  /\ last.outcome = "rejected"

\* S lists the same item id more than once (as the same string or as two
\* strings of the same key).
ListsDuplicate(S) ==
  \E j, k \in 1..Len(S) : j # k /\ IdValue(S[j]) = IdValue(S[k])

\* C5: ReorderChecklistItems(G, S) where S lists the same item id more than
\* once is rejected and changes no stored position; on an existing checklist
\* the rejection is the validation error.
C5_DuplicateIdRejected ==
  (Reordered /\ ListsDuplicate(last.item_ids)) =>
    /\ last.outcome = "rejected"
    /\ items = pre.items
    /\ IdValue(last.checklist_id) \in DOMAIN pre.checklists =>
         last.errors = <<"All items must belong to the specified checklist">>

\* C5 witness: every listed id is an item of the checklist, one of them
\* listed twice, and the items do not already stand at the listed indices.
C5_Witness ==
  /\ Reordered
  /\ last.checklist_id = "1"
  /\ Len(last.item_ids) = 3
  /\ ListsDuplicate(last.item_ids)
  /\ ListedKeys \subseteq ItemsOf(pre.items, 1)
  /\ Cardinality(ListedKeys) = 2
  /\ \A k \in 1..3 : pre.items[IdValue(last.item_ids[k])].position # k - 1
  /\ last.outcome = "rejected"

\* C6: when the store fails during the batch write of a ReorderChecklistItems
\* call, every stored item is as it was before the call; after any call either
\* every listed item carries its requested position or nothing was changed.
C6_FailedWriteRollsBack ==
  Reordered =>
    /\ last.fail # None => (last.outcome = "raised" /\ items = pre.items)
    /\ \/ items = pre.items
       \/ \A k \in 1..Len(last.item_ids) :
            /\ IdValue(last.item_ids[k]) \in DOMAIN items
            /\ items[IdValue(last.item_ids[k])].position = k - 1

\* C6 witness: the store failed after one of three rows had been written.
C6_Witness ==
  /\ Reordered
  /\ last.fail = Some(1)
  /\ Len(last.item_ids) = 3
  /\ \A k \in 1..3 : pre.items[IdValue(last.item_ids[k])].position # k - 1
  /\ last.outcome = "raised"
  /\ items = pre.items

\* C7: after a successful ReorderChecklistItems(G, S), also when S is a proper
\* subset of the items of G, no two items of G share a stored position.
\* Stated for calls that start with the positions of G pairwise distinct, so
\* that a shared position afterwards is the doing of the call.
C7_DistinctAfterReorder ==
  (ReorderedOk /\ DistinctPositions(pre.items, IdValue(last.checklist_id))) =>
    DistinctPositions(items, IdValue(last.checklist_id))

\* The payload of a ReorderChecklistItems call.
ReorderPayload(r) ==
  [outcome |-> r.outcome, items |-> r.items, checklist |-> r.checklist,
   errors |-> r.errors, exception |-> r.exception]

\* C8 as stated: invoking ReorderChecklistItems a second time with the same
\* checklist id and id list, with no operation in between, and also as a
\* retry after a failed first attempt, changes no stored position and returns
\* the same result.
C8_SecondCallChangesNothing ==
  Reordered =>
    LET again == ReorderMutate(items, checklists, last.checklist_id,
                               last.item_ids, None)
    IN /\ \A i \in DOMAIN items : again.db[i].position = items[i].position
       /\ ReorderPayload(again) = ReorderPayload(last)

\* C8 amended: repeating a completed call (successful, rejected, or raising
\* on its id list) with the same checklist id and id list, with no operation
\* in between, changes no stored item and returns the same payload.  A retry
\* after an attempt that failed in the store is the first call to take
\* effect: it succeeds, leaves each listed item at its index, which is the
\* state a single successful call gives, and a further repetition changes
\* nothing.
C8_ReorderIdempotent ==
  Reordered =>
    LET again == ReorderMutate(items, checklists, last.checklist_id,
                               last.item_ids, None)
        third == ReorderMutate(again.db, checklists, last.checklist_id,
                               last.item_ids, None)
        single == ReorderMutate(pre.items, pre.checklists, last.checklist_id,
                                last.item_ids, None)
    IN IF last.fail = None
       THEN /\ again.db = items
            /\ ReorderPayload(again) = ReorderPayload(last)
       ELSE /\ again.outcome = "ok"
            /\ \A k \in 1..Len(last.item_ids) :
                 again.db[IdValue(last.item_ids[k])].position = k - 1
            /\ again.db = single.db
            /\ ReorderPayload(again) = ReorderPayload(single)
            /\ third.db = again.db
            /\ ReorderPayload(third) = ReorderPayload(again)

\* C8 witness: the call listed the three items of its checklist in a new
\* order and failed in the store after one row, so that nothing was stored;
\* the retry moves the items.
C8_Witness ==
  /\ Reordered
  /\ last.fail = Some(1)
  /\ last.outcome = "raised"
  /\ Len(last.item_ids) = 3
  /\ items = pre.items
  /\ ReorderMutate(items, checklists, last.checklist_id, last.item_ids,
                   None).db # items

\* C10: ReorderChecklistItems with a checklist id that does not exist changes
\* no stored row and returns, without raising, a payload with no items, no
\* checklist and the error message naming the checklist id.
C10_MissingChecklistRejected ==
  (Reordered /\ IdValue(last.checklist_id) \notin DOMAIN pre.checklists) =>
    /\ last.outcome = "rejected"
    /\ last.exception = None
    /\ last.items = None
    /\ last.checklist = None
    /\ last.errors = <<"Checklist " \o last.checklist_id \o " not found">>
    /\ Tables = pre

\* C10 witness: the call named checklist 3, which is not stored, and listed
\* the ids of stored items.
C10_Witness ==
  /\ Reordered
  /\ last.checklist_id = "3"
  /\ Len(last.item_ids) = 2
  /\ ListedKeys \subseteq DOMAIN pre.items
  /\ last.errors = <<"Checklist 3 not found">>


\* C3: CreateTask without an explicit order stores the new task with order =
\* (maximum order among the existing tasks of the same status and priority)
\* + 1 when such tasks exist, and with order 0 when there is none; tasks of
\* other (status, priority) buckets do not influence the value.
C3_AutoOrderIsMaxPlusOne ==
  (last.op = "CreateTask" /\ last.outcome = "ok" /\ last.order = None) =>
    LET new == tasks[last.task[1]]
        existing == {pre.tasks[t].order :
                       t \in Bucket(pre.tasks, new.status, new.priority)}
    IN new.order = IF existing = {} THEN 0 ELSE SetMax(existing) + 1


\* Both concurrent calls have committed, on the same checklist, and each had
\* read before the other wrote.
BothCommittedInterleaved ==
  /\ Len(txn.commits) = 2
  /\ txn.overlap
  /\ txn.calls[1].checklist_id = txn.calls[2].checklist_id

\* C9: when two ReorderChecklistItems calls on the same checklist interleave
\* (both read the stored positions before either writes) and both commit, the
\* stored positions are the order requested by the call that committed last:
\* each item it listed stands at its index in that list.
C9_LastCommitWins ==
  BothCommittedInterleaved =>
    LET S == txn.calls[txn.commits[2]].item_ids
    IN \A k \in 1..Len(S) : items[IdValue(S[k])].position = k - 1

\* C9 witness: a call that listed the three items in a new order wrote while
\* the other call, which had read the same checklist and found nothing to
\* update, was still open; both committed, the writer last.
C9_Witness ==
  /\ BothCommittedInterleaved
  /\ txn.calls[txn.commits[2]].item_ids = <<"3", "1", "2">>
  /\ txn.calls[txn.commits[1]].item_ids = <<"1", "2", "3">>
  /\ txn.calls[txn.commits[1]].outcome = "ok"
  /\ items[3].position = 0 /\ items[1].position = 1 /\ items[2].position = 2

\* C11: whenever a mutation is rejected, that is, returns a non-empty errors
\* list, the stored tasks, checklists and items are the ones stored before
\* the call.
C11_RejectedCallChangesNothing ==
  (last.op # "none" /\ last.errors # <<>>) => Tables = pre

\* C11 witness: UpdateTask with a blank title on a stored task was rejected
\* while checklists and items were stored.
C11_Witness ==
  /\ last.op = "UpdateTask"
  /\ last.errors = <<"Title cannot be empty">>
  /\ IdValue(last.id) \in DOMAIN pre.tasks
  /\ DOMAIN pre.checklists # {}
  /\ DOMAIN pre.items # {}
  /\ Tables = pre

\* C12: a successful DeleteChecklistItem removes exactly the addressed item;
\* every other item keeps its row, position included, so the positions of
\* the checklist may have a gap afterwards.
C12_DeleteRemovesOneItem ==
  (last.op = "DeleteChecklistItem" /\ last.outcome = "ok") =>
    /\ DOMAIN items = DOMAIN pre.items \ {IdValue(last.item_id)}
    /\ IdValue(last.item_id) \in DOMAIN pre.items
    /\ \A i \in DOMAIN items : items[i] = pre.items[i]
    /\ tasks = pre.tasks
    /\ checklists = pre.checklists

\* C12 witness: the deleted item stood between two siblings, which still
\* stand at the positions on either side of the gap.
C12_Witness ==
  /\ last.op = "DeleteChecklistItem"
  /\ last.outcome = "ok"
  /\ LET gone == pre.items[IdValue(last.item_id)]
     IN \E i, j \in ItemsOf(items, gone.checklist) :
          /\ items[i].position + 1 = gone.position
          /\ items[j].position = gone.position + 1

\* C13: no call other than ReorderChecklistItems changes the position of an
\* item that exists before and after it: ToggleChecklistItem,
\* UpdateChecklistItem, and AddChecklistItem or DeleteChecklistItem of
\* another item leave every stored position as it was.
C13_PositionChangesOnlyByReorder ==
  (last.op \notin {"none", "ReorderChecklistItems"}) =>
    \A i \in DOMAIN items \cap DOMAIN pre.items :
      items[i].position = pre.items[i].position

\* C13 witness: an item was toggled to completed while a sibling was stored
\* in the same checklist.
C13_Witness ==
  /\ last.op = "ToggleChecklistItem"
  /\ last.outcome = "ok"
  /\ LET i == IdValue(last.item_id)
     IN /\ items[i].completed
        /\ ~pre.items[i].completed
        /\ \E j \in ItemsOf(items, items[i].checklist) : j # i

\* C14: a successful ReorderChecklistItems(G, S) returns the owning checklist
\* G and the items of G, each once, in order of non-decreasing position as
\* stored after the update; when S lists every item of G, the returned
\* sequence of ids is S.
C14_ReorderReturnsItemsByPosition ==
  ReorderedOk =>
    LET g == IdValue(last.checklist_id)
        S == last.item_ids
        R == last.items[1]
    IN /\ last.checklist = Some(g)
       /\ last.items # None
       /\ {R[k] : k \in 1..Len(R)} = ItemsOf(items, g)
       /\ Len(R) = Cardinality(ItemsOf(items, g))
       /\ \A k \in 1..(Len(R) - 1) :
            items[R[k]].position <= items[R[k + 1]].position
       /\ ListedKeys = ItemsOf(items, g) =>
            R = [k \in 1..Len(S) |-> IdValue(S[k])]

\* C14 witness: the call listed all three items of the checklist in an order
\* that is neither their order by id nor their order by position before the
\* call, and returned them in the listed order.
C14_Witness ==
  /\ ReorderedOk
  /\ Len(last.item_ids) = 3
  /\ ListedKeys = ItemsOf(items, IdValue(last.checklist_id))
  /\ last.items[1] = [k \in 1..3 |-> IdValue(last.item_ids[k])]
  /\ last.items[1] # <<1, 2, 3>>
  /\ last.items[1] # OrderByPosition(pre.items, ListedKeys)

\* C16: after a successful ReorderChecklistItems(G, S) in which S lists every
\* item of G exactly once, the stored positions of the n items of G are
\* exactly 0, 1, ..., n-1.
C16_FullReorderIsContiguous ==
  (ReorderedOk /\ ListedKeys = ItemsOf(pre.items, IdValue(last.checklist_id))) =>
    LET G == ItemsOf(items, IdValue(last.checklist_id))
    IN /\ {items[i].position : i \in G} = 0..(Cardinality(G) - 1)
       /\ DistinctPositions(items, IdValue(last.checklist_id))

\* C16 witness: the three items of the checklist shared positions or left a
\* gap before the call, which listed all three.
C16_Witness ==
  /\ ReorderedOk
  /\ Len(last.item_ids) = 3
  /\ ListedKeys = ItemsOf(pre.items, IdValue(last.checklist_id))
  /\ {pre.items[i].position : i \in ListedKeys} # 0..2
  /\ {items[i].position : i \in ListedKeys} = 0..2

\* C15: a successful AddChecklistItem with an explicit position p stores the
\* new item with position p, and a successful CreateTask with an explicit
\* order p stores the new task with order p; every row stored before the call
\* is unchanged, also when a row of the same checklist (or of the same status
\* and priority) already carries p.
C15_ExplicitPositionStoredAsIs ==
  /\ (last.op = "AddChecklistItem" /\ last.outcome = "ok" /\ last.position # None) =>
       /\ DOMAIN items = DOMAIN pre.items \cup {last.item[1]}
       /\ last.item[1] \notin DOMAIN pre.items
       /\ items[last.item[1]].position = last.position[1]
       /\ \A i \in DOMAIN pre.items : items[i] = pre.items[i]
  /\ (last.op = "CreateTask" /\ last.outcome = "ok" /\ last.order # None) =>
       /\ DOMAIN tasks = DOMAIN pre.tasks \cup {last.task[1]}
       /\ last.task[1] \notin DOMAIN pre.tasks
       /\ tasks[last.task[1]].order = last.order[1]
       /\ \A t \in DOMAIN pre.tasks : tasks[t] = pre.tasks[t]

\* C15 witness: an item was added at an explicit position that another item
\* of the same checklist already had; both now carry it.
C15_Witness ==
  /\ last.op = "AddChecklistItem"
  /\ last.outcome = "ok"
  /\ last.position # None
  /\ \E j \in ItemsOf(pre.items, items[last.item[1]].checklist) :
       /\ pre.items[j].position = last.position[1]
       /\ items[j].position = items[last.item[1]].position

\* C17: a reader on another connection, while a ReorderChecklistItems call is
\* in progress or after it ended, sees the items either as they were stored
\* before the call or with every listed item at its new position; it never
\* sees only some of the listed items moved.
C17_ReaderSeesBeforeOrAfter ==
  last.op = "ReadItems" =>
    LET call == last.call
    IN \/ last.seen = call.before
       \/ last.seen = BulkUpdate(call.before, call.upd, call.item_ids,
                                 Len(call.upd))

\* C17 witness: the read happened when the call had written one row of a
\* batch of three in its transaction, and saw the items as before the call.
C17_Witness ==
  /\ last.op = "ReadItems"
  /\ last.call.pc = "writing"
  /\ last.call.n = 1
  /\ Len(last.call.upd) = 3
  /\ last.call.working # last.call.before
  /\ last.seen = last.call.before

\* The six arguments of the observed updateTask that were not supplied are
\* stored on task `new` as they were on `old`.
UnsuppliedKept(new, old) ==
  /\ last.title = None => new.title = old.title
  /\ last.description = None => new.description = old.description
  /\ last.status = None => new.status = old.status
  /\ last.category = None => new.category = old.category
  /\ last.priority = None => new.priority = old.priority
  /\ last.order = None => new.order = old.order

\* C18 as stated: whatever subset of title, description, status, category,
\* priority and order updateTask is passed, every field of the addressed task
\* that was not supplied, updated_at among them, and every field of every
\* other task keeps its stored value.
C18_UnsuppliedFieldsKeepValue ==
  last.op \in {"UpdateTask", "resolve_update_task"} =>
    /\ DOMAIN tasks = DOMAIN pre.tasks
    /\ \A t \in DOMAIN tasks \ {IdValue(last.id)} : tasks[t] = pre.tasks[t]
    /\ IdValue(last.id) \in DOMAIN tasks =>
         LET new == tasks[IdValue(last.id)]
             old == pre.tasks[IdValue(last.id)]
         IN UnsuppliedKept(new, old) /\ new.updated_at = old.updated_at

\* C18 amended: whatever subset of title, description, status, category,
\* priority and order updateTask is passed, each of these six fields of the
\* addressed task that was not supplied keeps its stored value, and a
\* successful call stores a later updated_at on the addressed task; a
\* rejected call leaves updated_at as it was.  Every other task keeps all its
\* fields, no task is added or removed, and checklists and items stay as they
\* were.
C18_UpdateTaskKeepsOtherFields ==
  last.op \in {"UpdateTask", "resolve_update_task"} =>
    /\ DOMAIN tasks = DOMAIN pre.tasks
    /\ \A t \in DOMAIN tasks \ {IdValue(last.id)} : tasks[t] = pre.tasks[t]
    /\ IdValue(last.id) \in DOMAIN tasks =>
         LET new == tasks[IdValue(last.id)]
             old == pre.tasks[IdValue(last.id)]
         IN /\ UnsuppliedKept(new, old)
            /\ IF last.outcome = "ok"
               THEN new.updated_at > old.updated_at
               ELSE new.updated_at = old.updated_at
    /\ checklists = pre.checklists
    /\ items = pre.items

\* C18 witness: UpdateTask was passed a status only, for a task whose other
\* fields had all been changed from their defaults by an earlier update, while
\* a second task was stored.
C18_Witness ==
  /\ last.op = "UpdateTask"
  /\ last.outcome = "ok"
  /\ last.status # None
  /\ last.title = None /\ last.description = None /\ last.category = None
  /\ last.priority = None /\ last.order = None
  /\ Cardinality(DOMAIN tasks) = 2
  /\ LET new == tasks[IdValue(last.id)]
         old == pre.tasks[IdValue(last.id)]
     IN /\ new.status # old.status
        /\ new.title = <<"u">> /\ new.description = <<"d">>
        /\ new.category = <<"#", "x">> /\ new.priority = "P1"
        /\ new.order = 0
        /\ old.updated_at = 1 /\ new.updated_at = 2

\* C19: a successful deleteTask(id) returns success = true, leaves no task
\* with that id and leaves every other task stored unchanged; deleteTask on
\* an id that is not stored returns success = false with a 'not found' error
\* and removes nothing.
C19_DeleteTaskRemovesOneTask ==
  last.op \in {"DeleteTask", "resolve_delete_task"} =>
    LET id == IdValue(last.id)
        not_found == "Task " \o last.id \o " not found"
    IN IF id \in DOMAIN pre.tasks
       THEN /\ last.success
            /\ DOMAIN tasks = DOMAIN pre.tasks \ {id}
            /\ \A t \in DOMAIN tasks : tasks[t] = pre.tasks[t]
       ELSE /\ ~last.success
            /\ last.op = "DeleteTask" => last.errors = <<not_found>>
            /\ last.op = "resolve_delete_task" =>
                 last.errors = Some(<<[field |-> "id", message |-> not_found]>>)
            /\ Tables = pre

\* C19 witness: the resolver deleted one of three stored tasks.
C19_Witness ==
  /\ last.op = "resolve_delete_task"
  /\ last.success
  /\ Cardinality(DOMAIN pre.tasks) = 3
  /\ Cardinality(DOMAIN tasks) = 2
  /\ IdValue(last.id) \notin DOMAIN tasks


\* C21: starting from empty checklists, after any sequence of
\* AddChecklistItem calls without a position, DeleteChecklistItem calls and
\* ReorderChecklistItems calls that list every item of the checklist, no two
\* items of a checklist share a stored position.
C21_ItemPositionsDistinct ==
  \A g \in DOMAIN checklists : DistinctPositions(items, g)

\* C22: starting from no tasks, after any sequence of CreateTask calls
\* without an order, UpdateTask calls that pass a status or a priority and no
\* order, and DeleteTask calls, no two tasks with the same status and
\* priority share a stored order.
C22_TaskOrdersDistinct ==
  \A t, u \in DOMAIN tasks :
    (t # u /\ tasks[t].status = tasks[u].status
           /\ tasks[t].priority = tasks[u].priority)
      => tasks[t].order # tasks[u].order

\* C23: in every reachable state every stored item belongs to a stored
\* checklist and every stored checklist to a stored task.  A successful
\* DeleteChecklist removes the checklist and exactly its items; a successful
\* DeleteTask removes the task, exactly its checklists and exactly their
\* items; every other row stays as it was.
C23_DeletesCascade ==
  /\ \A i \in DOMAIN items : items[i].checklist \in DOMAIN checklists
  /\ \A c \in DOMAIN checklists : checklists[c].task \in DOMAIN tasks
  /\ (last.op = "DeleteChecklist" /\ last.outcome = "ok") =>
       LET g == IdValue(last.checklist_id)
       IN /\ tasks = pre.tasks
          /\ DOMAIN checklists = DOMAIN pre.checklists \ {g}
          /\ \A c \in DOMAIN checklists : checklists[c] = pre.checklists[c]
          /\ DOMAIN items = DOMAIN pre.items \ ItemsOf(pre.items, g)
          /\ \A i \in DOMAIN items : items[i] = pre.items[i]
  /\ (last.op = "DeleteTask" /\ last.outcome = "ok") =>
       LET id == IdValue(last.id)
           gone == {c \in DOMAIN pre.checklists : pre.checklists[c].task = id}
       IN /\ DOMAIN tasks = DOMAIN pre.tasks \ {id}
          /\ \A t \in DOMAIN tasks : tasks[t] = pre.tasks[t]
          /\ DOMAIN checklists = DOMAIN pre.checklists \ gone
          /\ \A c \in DOMAIN checklists : checklists[c] = pre.checklists[c]
          /\ DOMAIN items =
               {i \in DOMAIN pre.items : pre.items[i].checklist \notin gone}
          /\ \A i \in DOMAIN items : items[i] = pre.items[i]

\* C23 witness: DeleteTask removed a task with a checklist holding an item,
\* while the checklist and the item of another task stayed.
C23_Witness ==
  /\ last.op = "DeleteTask"
  /\ last.outcome = "ok"
  /\ \E i \in DOMAIN pre.items :
       /\ pre.checklists[pre.items[i].checklist].task = IdValue(last.id)
       /\ i \notin DOMAIN items
       /\ pre.items[i].checklist \notin DOMAIN checklists
  /\ \E j \in DOMAIN items :
       /\ checklists[items[j].checklist].task # IdValue(last.id)
       /\ items[j] = pre.items[j]

\* C24: the progress of a checklist is an integer from 0 to 100: 0 for a
\* checklist without items, 100 exactly when it has items and all of them are
\* completed, and otherwise the percentage of completed items rounded down.
C24_ProgressIsFloorOfPercentage ==
  last.op = "resolve_progress" =>
    LET G == ItemsOf(items, last.checklist)
        total == Cardinality(G)
        completed == Cardinality({i \in G : items[i].completed})
    IN /\ last.progress \in 0..100
       /\ total = 0 => last.progress = 0
       /\ last.progress = 100 <=> (total > 0 /\ completed = total)
       /\ total > 0 => last.progress = (100 * completed) \div total

\* C25: after any sequence of GraphQL createTask and updateTask calls the
\* stored category of every task is empty or starts with '#'.  A successful
\* call stores a category that starts with '#' as passed, stores a non-empty
\* category without it with one '#' in front, and stores the empty category
\* as empty, which for updateTask clears the stored one.
C25_CategoryIsHashPrefixed ==
  /\ \A t \in DOMAIN tasks :
       tasks[t].category = <<>> \/ Head(tasks[t].category) = "#"
  /\ (last.op \in {"CreateTask", "resolve_create_task", "UpdateTask",
                   "resolve_update_task"}
      /\ last.outcome = "ok" /\ last.category # None) =>
       LET passed == last.category[1]
           stored == tasks[last.task[1]].category
       IN IF passed = <<>> THEN stored = <<>>
          ELSE IF Head(passed) = "#" THEN stored = passed
          ELSE stored = <<"#">> \o passed

\* C25 witness: UpdateTask passed a category that starts with '#' for a task
\* stored with another category.
C25_Witness ==
  /\ last.op = "UpdateTask"
  /\ last.outcome = "ok"
  /\ last.category = Some(<<"#", "x">>)
  /\ pre.tasks[last.task[1]].category = <<"#">>
  /\ tasks[last.task[1]].category = <<"#", "x">>

\* C26: after any sequence of MCP create_task and update_task calls with
\* arbitrary strings, the empty string included, every stored task has a
\* status among TODO, DOING, WAITING, DONE and a priority among P1..P4, and a
\* call with a status or priority outside these sets returns an error and
\* stores nothing.
C26_McpStoresOnlyChoices ==
  /\ \A t \in DOMAIN tasks :
       tasks[t].status \in VALID_STATUSES
       /\ tasks[t].priority \in VALID_PRIORITIES
  /\ (last.op \in {"create_task", "update_task"}
      /\ (InvalidChoiceOrEmpty(last.status, VALID_STATUSES)
          \/ InvalidChoiceOrEmpty(last.priority, VALID_PRIORITIES))) =>
       (last.errors # None /\ Tables = pre)

\* C27: two concurrent AddChecklistItem calls without position on the same
\* checklist, each reading the maximum position before the other inserts,
\* store their items at different positions.
C27_ConcurrentAddsGetDistinctPositions ==
  \A p \in Procs : \A q \in Procs \ {p} :
    (/\ txn.calls[p].pc = "done" /\ txn.calls[p].outcome = "ok"
     /\ txn.calls[q].pc = "done" /\ txn.calls[q].outcome = "ok"
     /\ txn.calls[p].raced) =>
      items[txn.calls[p].item[1]].position
        # items[txn.calls[q].item[1]].position

\* C28: ReorderChecklistItems on checklist G, whatever its outcome, creates
\* and deletes no item, leaves the text, completed flag and owning checklist
\* of every item and the position of every item of another checklist as they
\* were, and leaves tasks and checklists alone; with an empty id list on a
\* stored checklist it succeeds and changes nothing.
C28_ReorderChangesOnlyPositions ==
  Reordered =>
    LET g == IdValue(last.checklist_id)
    IN /\ DOMAIN items = DOMAIN pre.items
       /\ \A i \in DOMAIN pre.items :
            /\ items[i].text = pre.items[i].text
            /\ items[i].completed = pre.items[i].completed
            /\ items[i].checklist = pre.items[i].checklist
            /\ pre.items[i].checklist # g =>
                 items[i].position = pre.items[i].position
       /\ tasks = pre.tasks
       /\ checklists = pre.checklists
       /\ (last.item_ids = <<>>
           /\ ChecklistExists(pre.checklists, last.checklist_id)) =>
            (last.outcome = "ok" /\ last.errors = <<>> /\ Tables = pre)

\* C28 witness: the call moved a completed item of its checklist while an
\* item of another checklist was stored.
C28_Witness ==
  /\ ReorderedOk
  /\ \E i \in ItemsOf(pre.items, IdValue(last.checklist_id)) :
       /\ pre.items[i].completed
       /\ items[i].position # pre.items[i].position
  /\ \E j \in DOMAIN pre.items :
       pre.items[j].checklist # IdValue(last.checklist_id)

\* C29: after any sequence of AddChecklistItem and UpdateChecklistItem calls
\* every stored item has a non-empty text without leading or trailing
\* whitespace, and a call whose text is empty or only whitespace is rejected
\* and leaves the store as it was.
C29_ItemTextIsNonEmptyAndStripped ==
  /\ \A i \in DOMAIN items :
       items[i].text # <<>> /\ Strip(items[i].text) = items[i].text
  /\ (last.op = "AddChecklistItem" /\ Strip(last.text) = <<>>) =>
       (last.outcome = "rejected" /\ Tables = pre)
  /\ (last.op = "UpdateChecklistItem" /\ last.text # None
      /\ Strip(last.text[1]) = <<>>) =>
       (last.outcome = "rejected" /\ Tables = pre)

====
